---- MODULE Spec2Model ----
(***************************************************************************)
(* Model of scripts/bootstrap_template.py: the checkpoint manifest, the    *)
(* mutation phase of main(), rollback_changes and recover_from_checkpoint. *)
(*                                                                         *)
(* A text is a sequence of lines and a line a sequence of tokens.  A path  *)
(* is <<directory, name>>; the directories under src/ are tracked in dirs, *)
(* every other directory always exists.  A Python dict is an association   *)
(* list (a sequence of <<key, value>> with distinct keys, insertion order).*)
(* Every step that changes the disk is an action of its own, so that the   *)
(* process can be killed, or interrupted, between any two of them.         *)
(***************************************************************************)
EXTENDS Integers, Sequences, FiniteSets, TLC

\* ------------------------------------------------------------------ bounds
\* Invocations of the script in one behaviour.
MaxRuns == 2
\* Rename records in a manifest or rollback state handed to recovery or
\* rollback on their own.
MaxRenames == 2

\* --------------------------------------------------------------- constants
TEMPLATE_DIST_NAME == "py-template"
TEMPLATE_IMPORT_NAME == "py_template"
DEFAULT_PYTHON_RANGE == ">=3.11"

README == <<".", "README.md">>
NOTES == <<".", "NOTES.txt">>
LOGO == <<".", "logo.png">>
\* A tracked symbolic link to a file outside the repository, and a tracked
\* file that was deleted from the working tree.
LINK == <<".", "GUIDE.md">>
GONE == <<".", "OLD.md">>
PYPROJECT == <<".", "pyproject.toml">>
UVLOCK == <<".", "uv.lock">>
SCRIPT_PATH == <<"scripts", "bootstrap_template.py">>
BOOTSTRAP_HELPER_PATH == <<"scripts", "bootstrap_template_helpers.py">>
BOOTSTRAP_TEST_PATH == <<"tests", "test_bootstrap_template.py">>

\* The names a package directory under src/ can have.
Chain == <<"py_template", "cool_tool", "other_pkg", "spare_pkg">>
PkgDirs == {Chain[k] : k \in DOMAIN Chain}
PkgFile(d) == <<d, "__init__.py">>

\* --------------------------------------------------- association lists
Keys(d) == {d[k][1] : k \in DOMAIN d}
HasKey(d, key) == \E k \in DOMAIN d : d[k][1] = key
Get(d, key) == d[CHOOSE k \in DOMAIN d : d[k][1] = key][2]
\* Mutation: the assignment replaces the dict by one that holds the new key only.
DictReset(d, key, v) == <<<<key, v>>>>

\* d[key] = v
DictSet(d, key, v) ==
    IF HasKey(d, key)
    THEN [k \in DOMAIN d |-> IF d[k][1] = key THEN <<key, v>> ELSE d[k]]
    ELSE Append(d, <<key, v>>)

\* ------------------------------------------------------------------ texts
ReplaceToken(tok, old, new) == IF tok = old THEN new ELSE tok
ReplaceLine(line, old, new) == [k \in DOMAIN line |-> ReplaceToken(line[k], old, new)]
Replace(text, old, new) == [k \in DOMAIN text |-> ReplaceLine(text[k], old, new)]

README0 == << <<"#", "py-template">>, <<"import", "py_template">> >>
NOTES0 == << <<"notes">> >>
\* Bytes that are not UTF-8: read_text raises UnicodeDecodeError.
LOGO0 == << <<"\\x89PNG">> >>
Unreadable(text) == text = LOGO0
INIT0 == << <<"pkg", "py_template">> >>
PYPROJECT0 ==
    << <<"[", "project", "]">>,
       <<"name", "=", "\"", "py-template", "\"">>,
       <<"requires-python", "=", "\"", ">=3.11", "\"">>,
       <<>>,
       <<"[", "dependency-groups", "]">>,
       <<"dev", "=", "[]">> >>
LockFor(name) == << <<"lock", name>> >>
SCRIPT0 == << <<"script", "py-template", "py_template">> >>

\* ------------------------------------------------------------------ names
\* A name is a string: Len, SubSeq and \o read and build it character by
\* character.
Lower ==
    {"a", "b", "c", "d", "e", "f", "g", "h", "i", "j", "k", "l", "m",
     "n", "o", "p", "q", "r", "s", "t", "u", "v", "w", "x", "y", "z"}
Upper ==
    {"A", "B", "C", "D", "E", "F", "G", "H", "I", "J", "K", "L", "M",
     "N", "O", "P", "Q", "R", "S", "T", "U", "V", "W", "X", "Y", "Z"}
Digits == {"0", "1", "2", "3", "4", "5", "6", "7", "8", "9"}
AlphaNum == Lower \cup Upper \cup Digits
CharAt(s, k) == SubSeq(s, k, k)

\* DIST_NAME_PATTERN.fullmatch: ^[A-Za-z0-9](?:[A-Za-z0-9._-]*[A-Za-z0-9])?$
MatchesDistName(s) ==
    /\ Len(s) >= 1
    /\ CharAt(s, 1) \in AlphaNum
    /\ CharAt(s, Len(s)) \in AlphaNum
    /\ \A k \in 1..Len(s) : CharAt(s, k) \in AlphaNum \cup {".", "_", "-"}

\* IMPORT_NAME_PATTERN.fullmatch: ^[A-Za-z_][A-Za-z0-9_]*$
MatchesImportName(s) ==
    /\ Len(s) >= 1
    /\ CharAt(s, 1) \in Lower \cup Upper \cup {"_"}
    /\ \A k \in 1..Len(s) : CharAt(s, k) \in AlphaNum \cup {"_"}

\* Mutation: the pattern of re.sub holds the dash only.
RECURSIVE DashesOnly(_)
DashesOnly(dist_name) ==
    IF dist_name = ""
    THEN ""
    ELSE (IF CharAt(dist_name, 1) = "-" THEN "_" ELSE CharAt(dist_name, 1))
         \o DashesOnly(SubSeq(dist_name, 2, Len(dist_name)))

\* re.sub(r"[-.]", "_", dist_name)
RECURSIVE DistToImportName(_)
DistToImportName(dist_name) ==
    IF dist_name = ""
    THEN ""
    ELSE (IF CharAt(dist_name, 1) \in {"-", "."} THEN "_" ELSE CharAt(dist_name, 1))
         \o DistToImportName(SubSeq(dist_name, 2, Len(dist_name)))

\* ------------------------------------- bootstrap_template_helpers.py
\* value.replace("\\", "\\\\").replace('"', '\\"')
RECURSIVE Escaped(_)
Escaped(value) ==
    IF value = ""
    THEN ""
    ELSE (IF CharAt(value, 1) \in {"\\", "\""} THEN "\\" \o CharAt(value, 1)
          ELSE CharAt(value, 1))
         \o Escaped(SubSeq(value, 2, Len(value)))

\* toml_quote: the quoted value as the three tokens of a line.
TomlQuote(value) == <<"\"", Escaped(value), "\"">>

\* tomllib.loads: the value of a basic string whose escapes are \\ and \".
RECURSIVE TomlUnquote(_)
TomlUnquote(quoted) ==
    IF quoted = ""
    THEN ""
    ELSE IF CharAt(quoted, 1) = "\\" /\ Len(quoted) >= 2
         THEN CharAt(quoted, 2) \o TomlUnquote(SubSeq(quoted, 3, Len(quoted)))
         ELSE CharAt(quoted, 1) \o TomlUnquote(SubSeq(quoted, 2, Len(quoted)))

\* re.sub(pattern, repl, ...) with a string repl: repl is a template, in which
\* a backslash starts an escape. Two backslashes stand for one, a backslash
\* before a, b, f, n, r, t, v or 0 for a control character (named here where
\* no string can hold it), a backslash before another ASCII letter or a digit
\* from 1 to 9 is an error (a bad escape, or a reference to a group that
\* key_pattern does not have), and a backslash before any other character is
\* kept with that character. A backslash before g opens a named reference,
\* which no line below holds.
ControlEscapes ==
    ("n" :> "\n") @@ ("t" :> "\t") @@ ("r" :> "\r") @@ ("f" :> "\f")
    @@ ("a" :> "<BEL>") @@ ("b" :> "<BS>") @@ ("v" :> "<VT>") @@ ("0" :> "<NUL>")
RECURSIVE TemplateError(_)
TemplateError(repl) ==
    IF Len(repl) = 0
    THEN FALSE
    ELSE IF CharAt(repl, 1) # "\\"
         THEN TemplateError(SubSeq(repl, 2, Len(repl)))
         ELSE \/ Len(repl) = 1
              \/ CharAt(repl, 2) \in ((Lower \cup Upper) \cup Digits) \ DOMAIN ControlEscapes
              \/ TemplateError(SubSeq(repl, 3, Len(repl)))
RECURSIVE ExpandTemplate(_)
ExpandTemplate(repl) ==
    IF Len(repl) = 0
    THEN ""
    ELSE IF CharAt(repl, 1) # "\\" \/ Len(repl) = 1
         THEN CharAt(repl, 1) \o ExpandTemplate(SubSeq(repl, 2, Len(repl)))
         ELSE (IF CharAt(repl, 2) = "\\" THEN "\\"
               ELSE IF CharAt(repl, 2) \in DOMAIN ControlEscapes
                    THEN ControlEscapes[CharAt(repl, 2)]
               ELSE SubSeq(repl, 1, 2))
              \o ExpandTemplate(SubSeq(repl, 3, Len(repl)))

SectionHeader(section) == <<"[", section, "]">>
StartsSection(line) == Len(line) >= 1 /\ line[1] = "["

\* section_span: <<start, end>>, the body is the lines start .. end-1;
\* <<0, 0>> stands for None.
SectionSpan(text, section) ==
    IF \E h \in DOMAIN text : text[h] = SectionHeader(section)
    THEN LET h == CHOOSE x \in DOMAIN text :
                      /\ text[x] = SectionHeader(section)
                      /\ \A y \in 1..(x - 1) : text[y] # SectionHeader(section)
             stops == {k \in (h + 1)..Len(text) : StartsSection(text[k])}
             end == IF stops = {} THEN Len(text) + 1
                    ELSE CHOOSE k \in stops : \A j \in stops : k <= j
         IN <<h + 1, end>>
    ELSE <<0, 0>>

IsKeyLine(line, key) == Len(line) >= 2 /\ line[1] = key /\ line[2] = "="

\* The lines of the body of the section that key_pattern matches.
KeyLines(text, section, key) ==
    {k \in SectionSpan(text, section)[1]..(SectionSpan(text, section)[2] - 1) :
        IsKeyLine(text[k], key)}

\* What set_key_in_section raises, "" when it returns.
SetKeyRaises(text, section, key, line) ==
    IF SectionSpan(text, section) = <<0, 0>>
    THEN "ValueError: Missing section"
    ELSE IF KeyLines(text, section, key) # {} /\ \E k \in DOMAIN line : TemplateError(line[k])
    THEN "re.error"
    ELSE ""

\* set_key_in_section, when it returns: key_pattern.sub(line, body, count=1)
\* takes the line as a template, the branch that appends takes it as it is.
\* A line is a sequence of tokens, and no escape lies across two of them.
SetKeyInSection(text, section, key, line) ==
    LET span == SectionSpan(text, section)
        start == span[1]
        end == span[2]
        hits == KeyLines(text, section, key)
    IN IF hits # {}
       THEN LET first == CHOOSE k \in hits : \A j \in hits : k <= j
            IN [k \in DOMAIN text |->
                   IF k = first
                   THEN [t \in DOMAIN line |-> ExpandTemplate(line[t])]
                   ELSE text[k]]
       ELSE SubSeq(text, 1, end - 1) \o <<line>> \o SubSeq(text, end, Len(text))

RECURSIVE RStrip(_)
RStrip(text) ==
    IF Len(text) > 0 /\ text[Len(text)] = <<>>
    THEN RStrip(SubSeq(text, 1, Len(text) - 1))
    ELSE text

EnsureSection(text, section, before_section) ==
    IF SectionSpan(text, section) # <<0, 0>>
    THEN text
    ELSE IF \E a \in DOMAIN text : text[a] = SectionHeader(before_section)
         THEN LET a == CHOOSE x \in DOMAIN text :
                           /\ text[x] = SectionHeader(before_section)
                           /\ \A y \in 1..(x - 1) : text[y] # SectionHeader(before_section)
              IN RStrip(SubSeq(text, 1, a - 1))
                     \o << <<>>, SectionHeader(section), <<>> >>
                     \o SubSeq(text, a, Len(text))
         ELSE RStrip(text) \o << SectionHeader(section), <<>> >>

\* format_authors_line; <<>> stands for None.
FormatAuthorsLine(author_name, author_email) ==
    IF author_name = "" /\ author_email = ""
    THEN <<>>
    ELSE <<"authors", "=", "[{">>
         \o (IF author_name # "" THEN <<"name", "=">> \o TomlQuote(author_name) ELSE <<>>)
         \o (IF author_name # "" /\ author_email # "" THEN <<",">> ELSE <<>>)
         \o (IF author_email # "" THEN <<"email", "=">> \o TomlQuote(author_email) ELSE <<>>)
         \o <<"}]">>

\* ------------------------------------------------------------ BootstrapValues
ValuesPlain ==
    [dist_name |-> "cool-tool", import_name |-> "cool_tool", description |-> "desc",
     author_name |-> "", author_email |-> "", repository_url |-> "",
     issues_url |-> "", python_range |-> DEFAULT_PYTHON_RANGE]
\* --import-name py_template, with an author and the URLs of the origin.
ValuesKeepImport ==
    [ValuesPlain EXCEPT !.import_name = TEMPLATE_IMPORT_NAME,
                        !.author_name = "Ann", !.author_email = "ann@example.org",
                        !.repository_url = "https://github.com/acme/cool-tool",
                        !.issues_url = "https://github.com/acme/cool-tool/issues"]
NoValues == [ValuesPlain EXCEPT !.dist_name = "", !.import_name = ""]

\* ----------------------------------------------------------- collect_values
\* None and the empty string are both "": every use of an optional string in
\* collect_values is `x or y`, which treats the two alike.
Or(a, b) == IF a # "" THEN a ELSE b

\* prompt(message, default): the text input() shows, and the value returned
\* for an answer (already stripped).
PromptText(message, default) ==
    message \o (IF default # "" THEN " [" \o default \o "]" ELSE "") \o ": "
Prompt(default, answer) == Or(answer, default)

DIST_PROMPT == "Distribution name (e.g. my-package)"
IMPORT_PROMPT == "Import name (e.g. my_package)"

\* project_defaults(): the string value of a key of [project].
ProjectDefault(text, key, default) ==
    LET span == SectionSpan(text, "project")
        hits == {k \in span[1]..(span[2] - 1) : IsKeyLine(text[k], key) /\ Len(text[k]) = 5}
    IN IF span = <<0, 0>> \/ hits = {}
       THEN default
       ELSE TomlUnquote(text[CHOOSE k \in hits : \A j \in hits : k <= j][4])

RECURSIVE RStripSlash(_)
RStripSlash(url) ==
    IF Len(url) > 0 /\ CharAt(url, Len(url)) = "/"
    THEN RStripSlash(SubSeq(url, 1, Len(url) - 1))
    ELSE url

ProjectNameFallback(text) ==
    LET project_name == ProjectDefault(text, "name", TEMPLATE_DIST_NAME)
    IN IF project_name = TEMPLATE_DIST_NAME THEN "" ELSE project_name

\* Mutation: the project name of the metadata file is preferred to the origin.
ProjectNameFirst(a, e, text) ==
    Or(a.package_name, Or(ProjectNameFallback(text), e.origin_name))

\* args.package_name or inferred_name or project_name_fallback
InferredDistName(a, e, text) ==
    Or(a.package_name, Or(e.origin_name, ProjectNameFallback(text)))

DefaultImport(a, e, text) ==
    Or(a.import_name,
       IF InferredDistName(a, e, text) # ""
       THEN DistToImportName(InferredDistName(a, e, text))
       ELSE "")

\* Mutation: the repository URL keeps its trailing slashes.
IssuesWithSlash(a, repository_url) ==
    Or(a.issues_url, IF repository_url # "" THEN repository_url \o "/issues" ELSE "")

\* args.issues_url or (f"{repository_url.rstrip('/')}/issues" if repository_url else "")
IssuesDefault(a, repository_url) ==
    Or(a.issues_url,
       IF repository_url # "" THEN RStripSlash(repository_url) \o "/issues" ELSE "")

\* The values collect_values builds, whether or not it goes on to raise.
CollectedValues(a, e, text) ==
    LET default_description == Or(a.description, ProjectDefault(text, "description", ""))
        default_python ==
            Or(a.python_range, ProjectDefault(text, "requires-python", DEFAULT_PYTHON_RANGE))
        default_repo == Or(a.repository_url, e.origin_url)
        default_author_name == Or(a.author_name, e.user_name)
        default_author_email == Or(a.author_email, e.user_email)
    IN IF e.interactive
       THEN LET dist_name ==
                    Or(Or(a.package_name, Prompt("", e.answers.dist_name)),
                       InferredDistName(a, e, text))
                import_name ==
                    Or(Or(a.import_name, Prompt("", e.answers.import_name)),
                       IF dist_name # "" THEN DistToImportName(dist_name)
                       ELSE DefaultImport(a, e, text))
                repository_url == Prompt(default_repo, e.answers.repository_url)
            IN [dist_name |-> dist_name,
                import_name |-> import_name,
                description |-> Prompt(default_description, e.answers.description),
                author_name |-> Prompt(default_author_name, e.answers.author_name),
                author_email |-> Prompt(default_author_email, e.answers.author_email),
                repository_url |-> repository_url,
                issues_url |-> Prompt(IssuesDefault(a, repository_url), e.answers.issues_url),
                python_range |-> Prompt(default_python, e.answers.python_range)]
       ELSE [dist_name |-> InferredDistName(a, e, text),
             import_name |-> DefaultImport(a, e, text),
             description |-> default_description,
             author_name |-> default_author_name,
             author_email |-> default_author_email,
             repository_url |-> default_repo,
             issues_url |-> IssuesDefault(a, default_repo),
             python_range |-> default_python]

\* The prompts an interactive collect_values shows, in order.
PromptsShown(a, e, text) ==
    IF ~e.interactive
    THEN <<>>
    ELSE LET v == CollectedValues(a, e, text)
         IN (IF a.package_name = "" THEN <<PromptText(DIST_PROMPT, "")>> ELSE <<>>)
            \o (IF a.import_name = "" THEN <<PromptText(IMPORT_PROMPT, "")>> ELSE <<>>)
            \o <<PromptText("Description",
                            Or(a.description, ProjectDefault(text, "description", ""))),
                 PromptText("Author name", Or(a.author_name, e.user_name)),
                 PromptText("Author email", Or(a.author_email, e.user_email)),
                 PromptText("Repository URL", Or(a.repository_url, e.origin_url)),
                 PromptText("Issues URL", IssuesDefault(a, v.repository_url)),
                 PromptText("Python range",
                            Or(a.python_range,
                               ProjectDefault(text, "requires-python",
                                              DEFAULT_PYTHON_RANGE)))>>

\* Mutation: the check of a non-interactive run for a name is missing.
NeverRequiresName(v, e) == FALSE

\* if not dist_name and not interactive: raise RuntimeError("Could not infer ...")
RequiresName(v, e) == v.dist_name = "" /\ ~e.interactive

\* Mutation: validate_names accepts every name.
AcceptsAnyName(v) == ""

\* The error main() raises for the values before the mutation phase, "" when
\* none: the names are required, then validate_names.
NameError(v) ==
    IF v.dist_name = "" \/ v.import_name = ""
    THEN "RuntimeError: Distribution and import names are required"
    ELSE IF ~MatchesDistName(v.dist_name)
         THEN "RuntimeError: Invalid distribution name"
         ELSE IF ~MatchesImportName(v.import_name)
              THEN "RuntimeError: Invalid import name"
              ELSE ""

\* -------------------------------------------------------------- update_pyproject
\* The text update_pyproject computes from the text it read; the section
\* [project] missing makes set_key_in_section raise.
PyprojectRaises(text) == SectionSpan(text, "project") = <<0, 0>>

UpdatedProject(text, v) ==
    LET t1 == SetKeyInSection(text, "project", "name",
                              <<"name", "=">> \o TomlQuote(v.dist_name))
        t2 == SetKeyInSection(t1, "project", "description",
                              <<"description", "=">> \o TomlQuote(v.description))
        t3 == SetKeyInSection(t2, "project", "requires-python",
                              <<"requires-python", "=">> \o TomlQuote(v.python_range))
        authors == FormatAuthorsLine(v.author_name, v.author_email)
    IN IF authors # <<>> THEN SetKeyInSection(t3, "project", "authors", authors) ELSE t3

UpdatedUrls(text, v) ==
    IF v.repository_url = "" /\ v.issues_url = ""
    THEN text
    ELSE LET t1 == EnsureSection(text, "project.urls", "dependency-groups")
             t2 == IF v.repository_url # ""
                   THEN SetKeyInSection(t1, "project.urls", "Repository",
                            <<"Repository", "=">> \o TomlQuote(v.repository_url))
                   ELSE t1
         IN IF v.issues_url # ""
            THEN SetKeyInSection(t2, "project.urls", "Issues",
                     <<"Issues", "=">> \o TomlQuote(v.issues_url))
            ELSE t2

UpdatedPyproject(text, v) == UpdatedUrls(UpdatedProject(text, v), v)

\* ------------------------------------------------------------------ state
VARIABLES
    dirs,              \* the package directories that exist under src/
    files,             \* path -> text, for every regular file on disk
    statePath,         \* STATE_PATH: <<>> when absent, <<payload>> when present
    backupDirExists,   \* STATE_BACKUP_DIR exists
    backupFiles,       \* backup number -> text, the files of STATE_BACKUP_DIR
    pc,                \* the statement the process is at
    runs,              \* invocations of the script so far
    args,              \* parse_args(): no_verify, keep_script, keep_changes_on_failure
    values,            \* collect_values()
    original_files,    \* RollbackState.original_files
    renamed_dirs,      \* RollbackState.renamed_dirs
    backup_files,      \* RollbackState.backup_files
    idx,               \* position in the loop being run
    target,            \* the path backup_text_file was called with
    ret,               \* where backup_text_file / write_checkpoint returns to
    cont,              \* where cleanup_checkpoint returns to
    data,              \* the manifest recover_from_checkpoint loaded
    exc,               \* the exception being propagated, "" when none
    base,              \* history: the tree before the run that is not yet committed
    trace,             \* history: the steps of the running recovery or rollback
    rollbackCalls,     \* history: calls of rollback_changes in this invocation
    atFailure,         \* history: the tree when the exception was raised
    preRun,            \* history: the tree when the mutation phase of this run began
    failure,           \* history: the exception first raised in the try block, "" when none
    prev,              \* history: how the previous process ended
    firstCall,         \* history: path -> text at the first backup_text_file call of this run
    env,               \* what collect_values reads besides args: the terminal, git
    prompts,           \* the prompts shown on the terminal, as <<message, default>>
    met,               \* history: the conditions this invocation met and passed over
    call,              \* a call of a text-patching helper: its name and arguments
    result,            \* what that call returned or raised, <<>> before it is made
    goal               \* history: the tree an uninterrupted undo would have left

disk == <<dirs, files, statePath, backupDirExists, backupFiles>>
memory == <<args, values, original_files, renamed_dirs, backup_files, idx, target,
            ret, cont, data, exc>>
history == <<base, trace, rollbackCalls, atFailure, preRun, failure, prev, firstCall>>
terminal == <<env, prompts>>
vars == <<disk, pc, runs, memory, history, terminal, met, call, result, goal>>

\* ------------------------------------------------------------- the disk
EmptyMap == [x \in {} |-> x]
Tree == [dirs |-> dirs, files |-> files]
Exists(p) == p \in DOMAIN files
WriteText(fs, p, text) == [q \in (DOMAIN fs) \cup {p} |-> IF q = p THEN text ELSE fs[q]]
Unlink(fs, p) == [q \in (DOMAIN fs) \ {p} |-> fs[q]]
\* Path.rename of the directory src/old to src/new, which does not exist.
RenamedFiles(fs, old, new) ==
    LET moved == {p \in DOMAIN fs : p[1] = old}
        kept == (DOMAIN fs) \ moved
    IN [q \in kept \cup {<<new, p[2]>> : p \in moved} |->
            IF q \in kept THEN fs[q] ELSE fs[<<old, q[2]>>]]
RenamedDirs(ds, old, new) == (ds \ {old}) \cup {new}
\* path.parent.mkdir(parents=True, exist_ok=True)
MkdirParent(ds, p) == IF p[1] \in PkgDirs THEN ds \cup {p[1]} ELSE ds

\* git ls-files: the index of the template, which no step of the script changes.
Tracked ==
    <<README, NOTES, LOGO, LINK, GONE, PYPROJECT, PkgFile(TEMPLATE_IMPORT_NAME), UVLOCK,
      SCRIPT_PATH, BOOTSTRAP_HELPER_PATH, BOOTSTRAP_TEST_PATH>>

\* Mutation: only a missing path is skipped.
SkipsMissingOnly(p) == ~Exists(p)

ShouldSkipPlaceholderFile(p) ==
    \/ p = SCRIPT_PATH
    \/ p = BOOTSTRAP_HELPER_PATH
    \/ p = BOOTSTRAP_TEST_PATH
    \/ p[2] = "uv.lock"
    \/ p = LINK
    \/ ~Exists(p)

Substituted(text, v) ==
    Replace(Replace(text, TEMPLATE_DIST_NAME, v.dist_name),
            TEMPLATE_IMPORT_NAME, v.import_name)

\* Mutation: the manifest leaves the rename records out.
PayloadWithoutRenames == [files |-> backup_files, renames |-> <<>>]

CheckpointPayload == [files |-> backup_files, renames |-> renamed_dirs]

\* ------------------------------------------------------------------- Init
\* parse_args(): an option that was not given is "".
NoArgs ==
    [package_name |-> "", import_name |-> "", description |-> "", author_name |-> "",
     author_email |-> "", repository_url |-> "", issues_url |-> "", python_range |-> "",
     no_verify |-> FALSE, keep_script |-> FALSE, keep_changes_on_failure |-> FALSE]
\* The answers typed at the prompts of an interactive run, one for each value.
NoAnswers ==
    [dist_name |-> "", import_name |-> "", description |-> "", author_name |-> "",
     author_email |-> "", repository_url |-> "", issues_url |-> "", python_range |-> ""]
\* sys.stdin.isatty(), the answers, git_origin() and git_config_value().
NoEnv ==
    [interactive |-> FALSE, answers |-> NoAnswers, origin_name |-> "", origin_url |-> "",
     user_name |-> "", user_email |-> ""]
NoData == [files |-> <<>>, renames |-> <<>>]

TemplateFiles ==
    (README :> README0) @@ (NOTES :> NOTES0) @@ (LOGO :> LOGO0) @@ (LINK :> << <<"guide", "py-template">> >>)
    @@ (PYPROJECT :> PYPROJECT0)
    @@ (PkgFile(TEMPLATE_IMPORT_NAME) :> INIT0)
    @@ (SCRIPT_PATH :> SCRIPT0) @@ (BOOTSTRAP_HELPER_PATH :> SCRIPT0)
    @@ (BOOTSTRAP_TEST_PATH :> SCRIPT0)

\* No helper has been called.
NoCall == [op |-> "", text |-> <<>>, section |-> "", key |-> "", line |-> <<>>,
           before_section |-> ""]

InitMemory ==
    /\ args = NoArgs
    /\ values = NoValues
    /\ original_files = <<>>
    /\ renamed_dirs = <<>>
    /\ backup_files = <<>>
    /\ idx = 0
    /\ target = README
    /\ ret = ""
    /\ cont = ""
    /\ data = NoData
    /\ exc = ""
    /\ env = NoEnv
    /\ prompts = <<>>

\* A fresh clone of the template: uv.lock may not have been generated yet, and
\* a directory of the new import name may already be there.
Init ==
    /\ \E withLock \in BOOLEAN, withTarget \in BOOLEAN :
        /\ dirs = {TEMPLATE_IMPORT_NAME} \cup (IF withTarget THEN {"cool_tool"} ELSE {})
        /\ files = TemplateFiles
                   @@ (IF withLock THEN UVLOCK :> LockFor(TEMPLATE_DIST_NAME) ELSE EmptyMap)
                   @@ (IF withTarget THEN PkgFile("cool_tool") :> NOTES0 ELSE EmptyMap)
    /\ statePath = <<>>
    /\ backupDirExists = FALSE
    /\ backupFiles = EmptyMap
    /\ pc = "recover"
    /\ runs = 1
    /\ InitMemory
    /\ base = [dirs |-> dirs, files |-> files]
    /\ trace = <<>>
    /\ rollbackCalls = 0
    /\ atFailure = [dirs |-> dirs, files |-> files]
    /\ preRun = [dirs |-> dirs, files |-> files]
    /\ failure = ""
    /\ prev = ""
    /\ firstCall = <<>>
    /\ met = {}
    /\ call = NoCall
    /\ result = <<>>
    /\ goal = [dirs |-> dirs, files |-> files]

\* ------------------------------------------------------ cleanup_checkpoint
\* Mutation: the backup directory is removed before the manifest.
RmtreeFirst == <<"rmtree", "unlink">>

\* STATE_PATH.unlink(missing_ok=True), then shutil.rmtree(STATE_BACKUP_DIR).
CleanupOrder == <<"unlink", "rmtree">>

\* Where cleanup_checkpoint returns to.
AfterCleanup ==
    CASE cont = "recovered" -> "parse"
      [] cont = "post" -> "post"
      [] OTHER -> "raised"

\* The run's changes stay for good once its manifest is deleted on the success
\* path or on the keep-changes path.
Commits == cont \in {"post", "kept"}

CleanupCheckpoint ==
    /\ pc \in {"cl_1", "cl_2"}
    /\ LET step == CleanupOrder[IF pc = "cl_1" THEN 1 ELSE 2]
       IN /\ IF step = "unlink"
             THEN /\ statePath' = <<>>
                  /\ base' = IF Commits THEN Tree ELSE base
                  /\ UNCHANGED <<backupDirExists, backupFiles>>
             ELSE /\ backupDirExists' = FALSE
                  /\ backupFiles' = EmptyMap
                  /\ UNCHANGED <<statePath, base>>
          /\ trace' = Append(trace, <<step>>)
    /\ pc' = IF pc = "cl_1" THEN "cl_2" ELSE AfterCleanup
    /\ UNCHANGED <<dirs, files, runs, memory, rollbackCalls, atFailure, preRun,
                   failure, prev, firstCall>>
    /\ UNCHANGED <<terminal, met>>
    /\ UNCHANGED <<call, result, goal>>

\* ------------------------------------------------- recover_from_checkpoint
\* Mutation: the records are replayed oldest-first.
InRecordedOrder(seq) == seq

Reversed(seq) == [k \in DOMAIN seq |-> seq[Len(seq) + 1 - k]]

\* if new_dir.exists() and not old_dir.exists(): new_dir.rename(old_dir)
CanRevert(rename) == rename[2] \in dirs /\ rename[1] \notin dirs

RevertRename(rename) ==
    IF CanRevert(rename)
    THEN /\ dirs' = RenamedDirs(dirs, rename[2], rename[1])
         /\ files' = RenamedFiles(files, rename[2], rename[1])
    ELSE UNCHANGED <<dirs, files>>

BackupExists(n) == backupDirExists /\ n \in DOMAIN backupFiles

\* The tree an undo leaves when nothing stops it: the renames reversed
\* newest-first, each where it applies, then every entry written back.
RECURSIVE AfterReversals(_, _)
AfterReversals(tree, reversals) ==
    IF reversals = <<>>
    THEN tree
    ELSE LET rename == Head(reversals)
         IN AfterReversals(
                IF rename[2] \in tree.dirs /\ rename[1] \notin tree.dirs
                THEN [dirs |-> RenamedDirs(tree.dirs, rename[2], rename[1]),
                      files |-> RenamedFiles(tree.files, rename[2], rename[1])]
                ELSE tree,
                Tail(reversals))
RECURSIVE AfterRestores(_, _)
AfterRestores(tree, entries) ==
    IF entries = <<>>
    THEN tree
    ELSE AfterRestores([dirs |-> MkdirParent(tree.dirs, Head(entries)[1]),
                        files |-> WriteText(tree.files, Head(entries)[1], Head(entries)[2])],
                       Tail(entries))
Undone(tree, renames, entries) ==
    AfterRestores(AfterReversals(tree, Reversed(renames)), entries)
\* The entries of a manifest whose backup exists, each with the text of it.
BackedUp(entries) ==
    LET kept == SelectSeq(entries, LAMBDA entry : BackupExists(entry[2]))
    IN [k \in DOMAIN kept |-> <<kept[k][1], backupFiles[kept[k][2]]>>]

RecoverLoad ==
    /\ pc = "recover"
    /\ IF statePath = <<>>
       THEN /\ pc' = "parse"
            /\ UNCHANGED <<data, idx, goal>>
       ELSE /\ data' = statePath[1]
            /\ idx' = 1
            /\ pc' = "rc_rename"
            /\ goal' = IF prev = "undo"
                       THEN goal
                       ELSE Undone(Tree, statePath[1].renames, BackedUp(statePath[1].files))
    /\ UNCHANGED <<disk, runs, args, values, original_files, renamed_dirs,
                   backup_files, target, ret, cont, exc, history>>
    /\ UNCHANGED <<terminal, met>>
    /\ UNCHANGED <<call, result>>

RecoverRename ==
    /\ pc = "rc_rename"
    /\ IF idx > Len(data.renames)
       THEN /\ pc' = "rc_file"
            /\ idx' = 1
            /\ UNCHANGED <<dirs, files, trace, met>>
       ELSE /\ RevertRename(Reversed(data.renames)[idx])
            /\ trace' = Append(trace, <<"rename", Reversed(data.renames)[idx]>>)
            /\ met' = IF CanRevert(Reversed(data.renames)[idx])
                       THEN met
                       ELSE met \cup {"rename not reverted"}
            /\ idx' = idx + 1
            /\ pc' = "rc_rename"
    /\ UNCHANGED <<statePath, backupDirExists, backupFiles, runs, args, values,
                   original_files, renamed_dirs, backup_files, target, ret, cont,
                   data, exc, base, rollbackCalls, atFailure, preRun, failure, prev,
                   firstCall>>
    /\ UNCHANGED terminal
    /\ UNCHANGED <<call, result, goal>>

\* Mutation: an entry without a backup ends the loop (break for continue).
EndOfEntries(i) == Len(data.files) + 1

\* if not backup_path.exists(): continue
NextEntry(i) == i + 1

\* The head of the loop over the file entries: an entry whose backup is
\* absent is skipped, for any other the parent directory is made.
RecoverFile ==
    /\ pc = "rc_file"
    /\ IF idx > Len(data.files)
       THEN /\ pc' = "cl_1"
            /\ cont' = "recovered"
            /\ UNCHANGED <<dirs, idx, met>>
       ELSE IF ~BackupExists(data.files[idx][2])
            THEN /\ idx' = NextEntry(idx)
                 /\ pc' = "rc_file"
                 /\ met' = met \cup {"backup absent"}
                 /\ UNCHANGED <<dirs, cont>>
            ELSE /\ dirs' = MkdirParent(dirs, data.files[idx][1])
                 /\ pc' = "rc_write"
                 /\ UNCHANGED <<idx, cont, met>>
    /\ UNCHANGED <<files, statePath, backupDirExists, backupFiles, runs, args, values,
                   original_files, renamed_dirs, backup_files, target, ret, data, exc,
                   history, terminal>>
    /\ UNCHANGED <<call, result, goal>>

\* Mutation: the text is read from the target, not from its backup.
CurrentText(entry) == IF Exists(entry[1]) THEN files[entry[1]] ELSE <<>>

\* The text recovery writes to the target of a file entry.
RecoveredText(entry) == backupFiles[entry[2]]

RecoverWrite ==
    /\ pc = "rc_write"
    /\ files' = WriteText(files, data.files[idx][1], RecoveredText(data.files[idx]))
    /\ trace' = Append(trace, <<"restore", data.files[idx][1]>>)
    /\ idx' = idx + 1
    /\ pc' = "rc_file"
    /\ UNCHANGED <<dirs, statePath, backupDirExists, backupFiles, runs, args, values,
                   original_files, renamed_dirs, backup_files, target, ret, cont,
                   data, exc, base, rollbackCalls, atFailure, preRun, failure, prev,
                   firstCall>>
    /\ UNCHANGED <<terminal, met>>
    /\ UNCHANGED <<call, result, goal>>

\* -------------------------------------------------------- rollback_changes
RollbackStart ==
    /\ pc = "rb_start"
    /\ trace' = <<>>
    /\ IF original_files = <<>> /\ renamed_dirs = <<>>
       THEN /\ pc' = "cl_1"
            /\ cont' = "rolledback"
            /\ UNCHANGED idx
       ELSE /\ pc' = "rb_rename"
            /\ idx' = 1
            /\ UNCHANGED cont
    /\ UNCHANGED <<disk, runs, args, values, original_files, renamed_dirs,
                   backup_files, target, ret, data, exc, base, rollbackCalls,
                   atFailure, preRun, failure, prev, firstCall>>
    /\ UNCHANGED <<terminal, met>>
    /\ goal' = Undone(Tree, renamed_dirs, original_files)
    /\ UNCHANGED <<call, result>>

RollbackRename ==
    /\ pc = "rb_rename"
    /\ IF idx > Len(renamed_dirs)
       THEN /\ pc' = "rb_file"
            /\ idx' = 1
            /\ UNCHANGED <<dirs, files, trace, met>>
       ELSE /\ RevertRename(Reversed(renamed_dirs)[idx])
            /\ trace' = Append(trace, <<"rename", Reversed(renamed_dirs)[idx]>>)
            /\ met' = IF CanRevert(Reversed(renamed_dirs)[idx])
                       THEN met
                       ELSE met \cup {"rename not reverted"}
            /\ idx' = idx + 1
            /\ pc' = "rb_rename"
    /\ UNCHANGED <<statePath, backupDirExists, backupFiles, runs, args, values,
                   original_files, renamed_dirs, backup_files, target, ret, cont,
                   data, exc, base, rollbackCalls, atFailure, preRun, failure, prev,
                   firstCall>>
    /\ UNCHANGED terminal
    /\ UNCHANGED <<call, result, goal>>

RollbackFile ==
    /\ pc = "rb_file"
    /\ IF idx > Len(original_files)
       THEN /\ pc' = "cl_1"
            /\ cont' = "rolledback"
            /\ UNCHANGED dirs
       ELSE /\ dirs' = MkdirParent(dirs, original_files[idx][1])
            /\ pc' = "rb_write"
            /\ UNCHANGED cont
    /\ UNCHANGED <<files, statePath, backupDirExists, backupFiles, runs, args, values,
                   original_files, renamed_dirs, backup_files, idx, target, ret, data,
                   exc, history>>
    /\ UNCHANGED <<terminal, met>>
    /\ UNCHANGED <<call, result, goal>>

RollbackWrite ==
    /\ pc = "rb_write"
    /\ files' = WriteText(files, original_files[idx][1], original_files[idx][2])
    /\ trace' = Append(trace, <<"restore", original_files[idx][1]>>)
    /\ idx' = idx + 1
    /\ pc' = "rb_file"
    /\ UNCHANGED <<dirs, statePath, backupDirExists, backupFiles, runs, args, values,
                   original_files, renamed_dirs, backup_files, target, ret, cont,
                   data, exc, base, rollbackCalls, atFailure, preRun, failure, prev,
                   firstCall>>
    /\ UNCHANGED <<terminal, met>>
    /\ UNCHANGED <<call, result, goal>>

\* ---------------------------------------------------------------- round trip
\* The tree is back at t: the directories of t, every file of t with the text
\* it has in t, and no other file but a lock file (a file that did not exist
\* is not recorded, so verification may leave a new uv.lock).
RestoredTo(t) ==
    /\ dirs = t.dirs
    /\ \A p \in DOMAIN t.files : Exists(p) /\ files[p] = t.files[p]
    /\ (DOMAIN files) \ (DOMAIN t.files) \subseteq {UVLOCK}

\* --------------------------------------------------------------- failures
\* An exception raised inside the try block of main(): the frames of the
\* functions it leaves are unwound, and their locals with them.
Fail(e, tree) ==
    /\ pc' = "except"
    /\ exc' = e
    /\ idx' = 0
    /\ target' = README
    /\ ret' = ""
    /\ atFailure' = tree
    /\ failure' = e

\* --------------------------------------------- parse_args, collect_values
\* The command lines and environments the script is run with: cool-tool with
\* every combination of the switches, with and without --import-name
\* py_template and a git origin; a distribution name and an import name that
\* validate_names rejects; no name at all, without and with a terminal.
Switches(a) ==
    {[a EXCEPT !.no_verify = nv, !.keep_script = ks, !.keep_changes_on_failure = kc] :
        nv \in BOOLEAN, ks \in BOOLEAN, kc \in BOOLEAN}
ArgsPlain == [NoArgs EXCEPT !.package_name = "cool-tool", !.description = "desc"]
ArgsKeepImport == [ArgsPlain EXCEPT !.import_name = TEMPLATE_IMPORT_NAME]
EnvOrigin ==
    [NoEnv EXCEPT !.origin_name = "cool-tool",
                  !.origin_url = "https://github.com/acme/cool-tool",
                  !.user_name = "Ann", !.user_email = "ann@example.org"]
MainInputs ==
    {[args |-> a, env |-> NoEnv] : a \in Switches(ArgsPlain)}
    \cup {[args |-> a, env |-> EnvOrigin] : a \in Switches(ArgsKeepImport)}
    \cup {[args |-> [NoArgs EXCEPT !.package_name = "bad name"], env |-> NoEnv],
          [args |-> [ArgsPlain EXCEPT !.import_name = "bad-name"], env |-> NoEnv],
          [args |-> NoArgs, env |-> NoEnv],
          [args |-> NoArgs, env |-> [NoEnv EXCEPT !.interactive = TRUE]]}

ParseArgs ==
    /\ pc = "parse"
    /\ \E inp \in MainInputs :
        /\ args' = inp.args
        /\ env' = inp.env
    /\ pc' = "collect"
    \* recover_from_checkpoint has returned: its local data is gone, and what
    \* the history holds of the process before has been looked at.
    /\ data' = NoData
    /\ preRun' = Tree
    /\ prev' = ""
    /\ goal' = Tree
    /\ UNCHANGED <<disk, runs, values, original_files, renamed_dirs, backup_files,
                   idx, target, ret, cont, exc, base, trace,
                   rollbackCalls, atFailure, failure, firstCall>>
    /\ UNCHANGED <<prompts, met>>
    /\ UNCHANGED <<call, result>>

\* values = collect_values(args), the check that both names are there,
\* validate_names, and rollback_state = RollbackState().
CollectValues ==
    /\ pc = "collect"
    /\ LET v == CollectedValues(args, env, files[PYPROJECT])
       IN /\ prompts' = PromptsShown(args, env, files[PYPROJECT])
          /\ IF RequiresName(v, env)
             THEN /\ exc' = "RuntimeError: Could not infer distribution name"
                  /\ pc' = "raised"
                  /\ UNCHANGED values
             ELSE /\ values' = v
                  /\ exc' = NameError(v)
                  /\ pc' = IF NameError(v) = "" THEN "rp_start" ELSE "raised"
    /\ original_files' = <<>>
    /\ renamed_dirs' = <<>>
    /\ backup_files' = <<>>
    /\ UNCHANGED <<disk, runs, args, idx, target, ret, cont, data, history, env, met>>
    /\ UNCHANGED <<call, result, goal>>

\* ------------------------------------------------------- backup_text_file
\* Mutation: the guard against a second backup of a path is missing.
NeverRecorded(path) == FALSE

AlreadyRecorded(path) == HasKey(original_files, path)

\* Mutation: the check for a missing path is not made.
ReadsAnyPath(path) == FALSE

\* if not path.exists() or not path.is_file(): return
NotAFile(path) == ~Exists(path)

\* A path that passes both checks is read: read_text of a missing path raises
\* FileNotFoundError.
BackupCheck ==
    /\ pc = "bk_check"
    /\ IF AlreadyRecorded(target) \/ NotAFile(target)
       THEN /\ pc' = ret
            /\ UNCHANGED <<original_files, idx, target, ret, exc, atFailure, failure>>
       ELSE IF ~Exists(target)
            THEN /\ Fail("FileNotFoundError", Tree)
                 /\ UNCHANGED original_files
            ELSE /\ original_files' = DictSet(original_files, target, files[target])
                 /\ pc' = "bk_mkdir"
                 /\ UNCHANGED <<idx, target, ret, exc, atFailure, failure>>
    /\ firstCall' = IF Exists(target) /\ ~HasKey(firstCall, target)
                    THEN Append(firstCall, <<target, files[target]>>)
                    ELSE firstCall
    /\ UNCHANGED <<disk, runs, args, values, renamed_dirs, backup_files,
                   cont, data, base, trace, rollbackCalls, preRun, prev>>
    /\ met' = IF ~AlreadyRecorded(target) /\ ~Exists(target)
               THEN met \cup {"file not backed up"}
               ELSE met
    /\ UNCHANGED terminal
    /\ UNCHANGED <<call, result, goal>>

BackupMkdir ==
    /\ pc = "bk_mkdir"
    /\ backupDirExists' = TRUE
    /\ pc' = "bk_write"
    /\ UNCHANGED <<dirs, files, statePath, backupFiles, runs, memory, history>>
    /\ UNCHANGED <<terminal, met>>
    /\ UNCHANGED <<call, result, goal>>

\* STATE_BACKUP_DIR / f"{len(state.backup_files):04d}.txt"
BackupNumber == Len(backup_files)

BackupWrite ==
    /\ pc = "bk_write"
    /\ backupFiles' = WriteText(backupFiles, BackupNumber, Get(original_files, target))
    /\ pc' = "bk_record"
    /\ UNCHANGED <<dirs, files, statePath, backupDirExists, runs, memory, history>>
    /\ UNCHANGED <<terminal, met>>
    /\ UNCHANGED <<call, result, goal>>

\* Mutation: backup_text_file returns without writing the manifest.
ReturnsUnflushed == ret

\* write_checkpoint(state), the last statement of backup_text_file.
AfterRecord == "wc_mkdir"

BackupRecord ==
    /\ pc = "bk_record"
    /\ backup_files' = DictSet(backup_files, target, BackupNumber)
    /\ pc' = AfterRecord
    /\ UNCHANGED <<disk, runs, args, values, original_files, renamed_dirs, idx, target,
                   ret, cont, data, exc, history>>
    /\ UNCHANGED <<terminal, met>>
    /\ UNCHANGED <<call, result, goal>>

\* ------------------------------------------------------- write_checkpoint
CheckpointMkdir ==
    /\ pc = "wc_mkdir"
    /\ backupDirExists' = TRUE
    /\ pc' = "wc_write"
    /\ UNCHANGED <<dirs, files, statePath, backupFiles, runs, memory, history>>
    /\ UNCHANGED <<terminal, met>>
    /\ UNCHANGED <<call, result, goal>>

CheckpointWrite ==
    /\ pc = "wc_write"
    /\ statePath' = <<CheckpointPayload>>
    /\ pc' = ret
    /\ UNCHANGED <<dirs, files, backupDirExists, backupFiles, runs, memory, history>>
    /\ UNCHANGED <<terminal, met>>
    /\ UNCHANGED <<call, result, goal>>

\* --------------------------------------------------- replace_placeholders
ReplaceStart ==
    /\ pc = "rp_start"
    /\ idx' = 1
    /\ pc' = "rp_scan"
    /\ UNCHANGED <<disk, runs, args, values, original_files, renamed_dirs,
                   backup_files, target, ret, cont, data, exc, history>>
    /\ UNCHANGED <<terminal, met>>
    /\ UNCHANGED <<call, result, goal>>

\* Mutation: the except clause for UnicodeDecodeError is missing.
DecodeErrorPropagates == FALSE

\* except UnicodeDecodeError: continue
SwallowsDecodeError == TRUE

ReplaceScan ==
    /\ pc = "rp_scan"
    /\ IF idx > Len(Tracked)
       THEN /\ pc' = "rn_check"
            /\ UNCHANGED <<idx, target, ret, exc, atFailure, failure, met>>
       ELSE IF ShouldSkipPlaceholderFile(Tracked[idx])
            THEN /\ idx' = idx + 1
                 /\ pc' = "rp_scan"
                 /\ UNCHANGED <<target, ret, exc, atFailure, failure, met>>
            ELSE IF Unreadable(files[Tracked[idx]])
                 THEN /\ met' = met \cup {"unreadable file"}
                      /\ IF SwallowsDecodeError
                         THEN /\ idx' = idx + 1
                              /\ pc' = "rp_scan"
                              /\ UNCHANGED <<target, ret, exc, atFailure, failure>>
                         ELSE Fail("UnicodeDecodeError", Tree)
                 ELSE IF Substituted(files[Tracked[idx]], values) = files[Tracked[idx]]
                      THEN /\ idx' = idx + 1
                           /\ pc' = "rp_scan"
                           /\ UNCHANGED <<target, ret, exc, atFailure, failure, met>>
                      ELSE /\ target' = Tracked[idx]
                           /\ ret' = "rp_write"
                           /\ pc' = "bk_check"
                           /\ UNCHANGED <<idx, exc, atFailure, failure, met>>
    /\ UNCHANGED <<disk, runs, args, values, original_files, renamed_dirs,
                   backup_files, cont, data, base, trace, rollbackCalls, preRun,
                   prev, firstCall, terminal>>
    /\ UNCHANGED <<call, result, goal>>

ReplaceWrite ==
    /\ pc = "rp_write"
    /\ files' = WriteText(files, Tracked[idx], Substituted(files[Tracked[idx]], values))
    /\ idx' = idx + 1
    /\ pc' = "rp_scan"
    /\ UNCHANGED <<dirs, statePath, backupDirExists, backupFiles, runs, args, values,
                   original_files, renamed_dirs, backup_files, target, ret, cont,
                   data, exc, history>>
    /\ UNCHANGED <<terminal, met>>
    /\ UNCHANGED <<call, result, goal>>

\* ----------------------------------------------------- rename_package_dir
\* Mutation: the target of the rename is not looked at.
TargetIgnored(new_dir) == FALSE

\* if new_dir.exists(): raise RuntimeError("Target package path already exists")
TargetExists(new_dir) == new_dir \in dirs

RenamePackageDir ==
    /\ pc = "rn_check"
    /\ LET old_dir == TEMPLATE_IMPORT_NAME
           new_dir == values.import_name
       IN IF old_dir \notin dirs \/ old_dir = new_dir
          THEN /\ pc' = "up_read"
               /\ UNCHANGED <<dirs, files, idx, target, ret, exc, atFailure, failure>>
          ELSE IF TargetExists(new_dir)
               THEN /\ UNCHANGED <<dirs, files>>
                    /\ Fail("RuntimeError", Tree)
               ELSE /\ dirs' = RenamedDirs(dirs, old_dir, new_dir)
                    /\ files' = RenamedFiles(files, old_dir, new_dir)
                    /\ pc' = "rn_append"
                    /\ UNCHANGED <<idx, target, ret, exc, atFailure, failure>>
    /\ UNCHANGED <<statePath, backupDirExists, backupFiles, runs, args, values,
                   original_files, renamed_dirs, backup_files, cont,
                   data, base, trace, rollbackCalls, preRun, prev,
                   firstCall>>
    /\ UNCHANGED <<terminal, met>>
    /\ UNCHANGED <<call, result, goal>>

RenameRecord ==
    /\ pc = "rn_append"
    /\ renamed_dirs' = Append(renamed_dirs, <<TEMPLATE_IMPORT_NAME, values.import_name>>)
    /\ ret' = "up_read"
    /\ pc' = "wc_mkdir"
    /\ UNCHANGED <<disk, runs, args, values, original_files, backup_files, idx, target,
                   cont, data, exc, history>>
    /\ UNCHANGED <<terminal, met>>
    /\ UNCHANGED <<call, result, goal>>

\* ------------------------------------------------------- update_pyproject
UpdateRead ==
    /\ pc = "up_read"
    /\ IF PyprojectRaises(files[PYPROJECT])
       THEN Fail("RuntimeError", Tree)
       ELSE /\ target' = PYPROJECT
            /\ ret' = "up_write"
            /\ pc' = "bk_check"
            /\ UNCHANGED <<idx, exc, atFailure, failure>>
    /\ UNCHANGED <<disk, runs, args, values, original_files, renamed_dirs,
                   backup_files, cont, data, base, trace, rollbackCalls, preRun, prev,
                   firstCall>>
    /\ UNCHANGED <<terminal, met>>
    /\ UNCHANGED <<call, result, goal>>

UpdateWrite ==
    /\ pc = "up_write"
    /\ files' = WriteText(files, PYPROJECT, UpdatedPyproject(files[PYPROJECT], values))
    /\ pc' = "vf_check"
    /\ UNCHANGED <<dirs, statePath, backupDirExists, backupFiles, runs, memory, history>>
    /\ UNCHANGED <<terminal, met>>
    /\ UNCHANGED <<call, result, goal>>

\* ----------------------------------------------------------------- verify
Commands == <<"uv sync", "uv lock", "ruff format", "prek run", "pytest">>

\* ruff format rewrites a source file the substitution has left unformatted.
Formatted(text) ==
    IF Len(text) > 0 /\ text[Len(text)] = <<"fmt">> THEN text ELSE text \o << <<"fmt">> >>

\* The trees a verification command can leave.  uv sync and uv lock write the
\* lock file of the renamed project; ruff format may rewrite the package source
\* when the substitution changed it (the template itself is formatted).
CommandOutcomes(command) ==
    CASE command \in {"uv sync", "uv lock"} ->
             {WriteText(files, UVLOCK, LockFor(values.dist_name))}
      [] command = "ruff format" ->
             {files} \cup
             {WriteText(files, p, Formatted(files[p])) :
                 p \in {q \in {PkgFile(values.import_name)} :
                           /\ Exists(q)
                           /\ AlreadyRecorded(PkgFile(TEMPLATE_IMPORT_NAME))}}
      [] OTHER -> {files}

\* Mutation: main() returns without cleanup_checkpoint().
ReturnsAtOnce == "post"

\* After the try block: cleanup_checkpoint()
AfterTry == "cl_1"

\* Mutation: verify() runs without the backup of uv.lock.
VerifyAtOnce == "verify"

\* backup_text_file(ROOT / "uv.lock", rollback_state), then verify()
BeforeVerify == "bk_check"

VerifyCheck ==
    /\ pc = "vf_check"
    /\ IF args.no_verify
       THEN /\ pc' = AfterTry
            /\ cont' = "post"
            /\ UNCHANGED <<target, ret, idx>>
       ELSE /\ target' = UVLOCK
            /\ ret' = "verify"
            /\ idx' = 1
            /\ pc' = BeforeVerify
            /\ UNCHANGED cont
    /\ UNCHANGED <<disk, runs, args, values, original_files, renamed_dirs,
                   backup_files, data, exc, history>>
    /\ UNCHANGED <<terminal, met>>
    /\ UNCHANGED <<call, result, goal>>

\* run(command): subprocess.run(..., check=True) raises on a non-zero exit.
VerifyRun ==
    /\ pc = "verify"
    /\ \E fs \in CommandOutcomes(Commands[idx]) :
        /\ files' = fs
        /\ \/ /\ idx' = idx + 1
              /\ pc' = IF idx = Len(Commands) THEN AfterTry ELSE "verify"
              /\ cont' = IF idx = Len(Commands) THEN "post" ELSE cont
              /\ UNCHANGED <<target, ret, exc, atFailure, failure>>
           \/ /\ Fail("CalledProcessError", [dirs |-> dirs, files |-> fs])
              /\ UNCHANGED cont
    /\ UNCHANGED <<dirs, statePath, backupDirExists, backupFiles, runs, args, values,
                   original_files, renamed_dirs, backup_files, data,
                   base, trace, rollbackCalls, preRun, prev,
                   firstCall>>
    /\ UNCHANGED <<terminal, met>>
    /\ UNCHANGED <<call, result, goal>>

\* ------------------------------------------------------------------- main
\* The statements inside the try block of main().
MutationPcs ==
    {"rp_start", "rp_scan", "rp_write", "bk_check", "bk_mkdir", "bk_write", "bk_record",
     "wc_mkdir", "wc_write", "rn_check", "rn_append", "up_read", "up_write",
     "vf_check", "verify"}

\* KeyboardInterrupt is raised between two statements of the try block.
Interrupt ==
    /\ pc \in MutationPcs
    /\ Fail("KeyboardInterrupt", Tree)
    /\ UNCHANGED <<disk, runs, args, values, original_files, renamed_dirs,
                   backup_files, cont, data, base, trace, rollbackCalls, preRun, prev,
                   firstCall>>
    /\ UNCHANGED <<terminal, met>>
    /\ UNCHANGED <<call, result, goal>>

\* Mutation: except Exception, which lets KeyboardInterrupt through.
CatchesExceptionOnly(e) == e # "KeyboardInterrupt"

\* except BaseException:
Catches(e) == TRUE

\* Mutation: --keep-changes-on-failure is not honoured.
KeepChangesIgnored == FALSE

KeepChanges == args.keep_changes_on_failure

Except ==
    /\ pc = "except"
    /\ IF ~Catches(exc)
       THEN /\ pc' = "raised"
            /\ UNCHANGED <<cont, rollbackCalls>>
       ELSE IF ~KeepChanges
            THEN /\ pc' = "rb_start"
                 /\ rollbackCalls' = rollbackCalls + 1
                 /\ UNCHANGED cont
            ELSE /\ pc' = "cl_1"
                 /\ cont' = "kept"
                 /\ UNCHANGED rollbackCalls
    /\ UNCHANGED <<disk, runs, args, values, original_files, renamed_dirs,
                   backup_files, idx, target, ret, data, exc, base, trace, atFailure,
                   preRun, failure, prev, firstCall>>
    /\ UNCHANGED <<terminal, met>>
    /\ UNCHANGED <<call, result, goal>>

\* Mutation: --keep-script is not honoured.
KeepScriptIgnored == FALSE

KeepScript == args.keep_script

Artifacts == <<SCRIPT_PATH, BOOTSTRAP_HELPER_PATH, BOOTSTRAP_TEST_PATH>>

\* if not args.keep_script: delete_bootstrap_artifacts(); main() returns 0.
Finish ==
    /\ pc = "post"
    /\ IF KeepScript
       THEN /\ pc' = "done"
            /\ UNCHANGED idx
       ELSE /\ pc' = "delete"
            /\ idx' = 1
    /\ UNCHANGED <<disk, runs, args, values, original_files, renamed_dirs,
                   backup_files, target, ret, cont, data, exc, history, terminal, met>>
    /\ UNCHANGED <<call, result, goal>>

\* delete_bootstrap_artifacts: path.unlink(missing_ok=True), one path a step.
DeleteArtifact ==
    /\ pc = "delete"
    /\ files' = Unlink(files, Artifacts[idx])
    /\ idx' = idx + 1
    /\ pc' = IF idx = Len(Artifacts) THEN "done" ELSE "delete"
    /\ UNCHANGED <<dirs, statePath, backupDirExists, backupFiles, runs, args, values,
                   original_files, renamed_dirs, backup_files, target, ret, cont, data,
                   exc, history, terminal, met>>
    /\ UNCHANGED <<call, result, goal>>

\* ------------------------------------------------------------ the process
Stopped == pc \in {"done", "raised", "killed"}

ResetMemory ==
    /\ args' = NoArgs
    /\ values' = NoValues
    /\ original_files' = <<>>
    /\ renamed_dirs' = <<>>
    /\ backup_files' = <<>>
    /\ idx' = 0
    /\ target' = README
    /\ ret' = ""
    /\ cont' = ""
    /\ data' = NoData
    /\ exc' = ""

\* The process is killed: no handler runs, only the disk survives.
Kill ==
    /\ ~Stopped
    /\ pc' = "killed"
    /\ ResetMemory
    /\ trace' = <<>>
    /\ rollbackCalls' = 0
    /\ atFailure' = Tree
    /\ failure' = ""
    /\ firstCall' = <<>>
    \* "undo": a recovery or a rollback had begun and cleanup_checkpoint had
    \* not returned.
    /\ prev' = IF pc \in MutationPcs THEN "crash"
               ELSE IF \/ pc \in {"rc_rename", "rc_file", "rc_write",
                                  "rb_rename", "rb_file", "rb_write"}
                       \/ pc \in {"cl_1", "cl_2"} /\ cont \in {"recovered", "rolledback"}
                    THEN "undo"
               ELSE "other"
    /\ UNCHANGED <<disk, runs, base, preRun>>
    /\ env' = NoEnv
    /\ prompts' = <<>>
    /\ met' = {}
    /\ UNCHANGED <<call, result, goal>>

\* The operator runs the script again.
Invoke ==
    /\ Stopped
    /\ runs < MaxRuns
    /\ Exists(SCRIPT_PATH) /\ Exists(BOOTSTRAP_HELPER_PATH)
    /\ runs' = runs + 1
    /\ pc' = "recover"
    /\ ResetMemory
    /\ trace' = <<>>
    /\ rollbackCalls' = 0
    /\ atFailure' = Tree
    /\ failure' = ""
    /\ firstCall' = <<>>
    /\ prev' = IF pc = "killed" THEN prev
               ELSE IF pc = "raised" /\ failure # "" /\ args.keep_changes_on_failure
                    THEN "kept"
               ELSE "other"
    /\ UNCHANGED <<disk, base, preRun>>
    /\ env' = NoEnv
    /\ prompts' = <<>>
    /\ met' = {}
    /\ UNCHANGED <<call, result, goal>>

Next ==
    \/ RecoverLoad \/ RecoverRename \/ RecoverFile \/ RecoverWrite
    \/ CleanupCheckpoint
    \/ ParseArgs \/ CollectValues
    \/ ReplaceStart \/ ReplaceScan \/ ReplaceWrite
    \/ BackupCheck \/ BackupMkdir \/ BackupWrite \/ BackupRecord
    \/ CheckpointMkdir \/ CheckpointWrite
    \/ RenamePackageDir \/ RenameRecord
    \/ UpdateRead \/ UpdateWrite
    \/ VerifyCheck \/ VerifyRun
    \/ Interrupt \/ Except
    \/ RollbackStart \/ RollbackRename \/ RollbackFile \/ RollbackWrite
    \/ Finish \/ DeleteArtifact
    \/ Kill \/ Invoke

Spec == Init /\ [][Next]_vars

\* ------------------------------------- recovery and rollback on their own
\* recover_from_checkpoint and rollback_changes are functions of the disk and
\* of the state they are handed: UnitSpec starts them on every manifest and
\* rollback state within the bounds, as the tests of the repository do with a
\* manifest written by hand.
UnitDirs == {Chain[k] : k \in 1..(MaxRenames + 1)}
RenameChain(n) == [k \in 1..n |-> <<Chain[k], Chain[k + 1]>>]
UnitEntries ==
    {<<>>, <<README>>, <<PkgFile(Chain[1])>>, <<README, PkgFile(Chain[1])>>,
     <<PkgFile(Chain[1]), README>>}
ChangedText == << <<"changed">> >>
OriginalText(p) == IF p = README THEN README0 ELSE INIT0

InitUnit ==
    /\ \E n \in 0..MaxRenames, d \in SUBSET UnitDirs, entries \in UnitEntries,
          present \in SUBSET {0, 1}, hasManifest \in BOOLEAN,
          mode \in {"recover", "rb_start"} :
        LET payload == [files |-> [k \in DOMAIN entries |-> <<entries[k], k - 1>>],
                        renames |-> RenameChain(n)]
        IN /\ dirs = d
           /\ files = [p \in {README, NOTES} \cup {PkgFile(x) : x \in d} |-> ChangedText]
           /\ statePath = IF hasManifest THEN <<payload>> ELSE <<>>
           /\ backupDirExists = (present # {})
           /\ backupFiles = [b \in present \cap {k - 1 : k \in DOMAIN entries} |->
                                OriginalText(entries[b + 1])]
           /\ pc = mode
           /\ original_files =
                  IF mode = "rb_start"
                  THEN [k \in DOMAIN entries |-> <<entries[k], OriginalText(entries[k])>>]
                  ELSE <<>>
           /\ renamed_dirs = IF mode = "rb_start" THEN payload.renames ELSE <<>>
           /\ backup_files = IF mode = "rb_start" THEN payload.files ELSE <<>>
           /\ rollbackCalls = IF mode = "rb_start" THEN 1 ELSE 0
           /\ exc = IF mode = "rb_start" THEN "RuntimeError" ELSE ""
           /\ failure = exc
    /\ runs = 1
    /\ args = NoArgs
    /\ values = NoValues
    /\ idx = 0
    /\ target = README
    /\ ret = ""
    /\ cont = ""
    /\ data = NoData
    /\ base = [dirs |-> dirs, files |-> files]
    /\ trace = <<>>
    /\ atFailure = [dirs |-> dirs, files |-> files]
    /\ preRun = [dirs |-> dirs, files |-> files]
    /\ prev = ""
    /\ firstCall = <<>>
    /\ env = NoEnv
    /\ prompts = <<>>
    /\ met = {}
    /\ call = NoCall
    /\ result = <<>>
    /\ goal = [dirs |-> dirs, files |-> files]

UnitNext ==
    \/ RecoverLoad \/ RecoverRename \/ RecoverFile \/ RecoverWrite
    \/ RollbackStart \/ RollbackRename \/ RollbackFile \/ RollbackWrite
    \/ CleanupCheckpoint

UnitSpec == InitUnit /\ [][UnitNext]_vars

\* --------------------------------------------------- collect_values on its own
\* collect_values is a function of the command line, the terminal, the git
\* origin and the [project] table of pyproject.toml: ValuesSpec applies it to
\* every combination of the names below, as the tests of the repository do
\* with a patched git_origin, project_defaults and stdin.
PackageNames == {"", "cool-tool", "my.pkg-2"}
ImportNames == {"", "custom_pkg"}
DistAnswers == {"", "typed-name"}
ImportAnswers == {"", "typed_pkg"}
OriginNames == {"", "repo-name"}
\* The name of [project]: "" when the table has no name.
ProjectNames == {"", TEMPLATE_DIST_NAME, "proj.name"}

IsNameLine(line) == IsKeyLine(line, "name")
PyprojectNamed(name) ==
    IF name = ""
    THEN SelectSeq(PYPROJECT0, LAMBDA line : ~IsNameLine(line))
    ELSE SetKeyInSection(PYPROJECT0, "project", "name", <<"name", "=">> \o TomlQuote(name))

InitValues ==
    /\ \E package_name \in PackageNames, import_name \in ImportNames,
          interactive \in BOOLEAN, dist_answer \in DistAnswers,
          import_answer \in ImportAnswers, origin_name \in OriginNames,
          project_name \in ProjectNames,
          repository_url \in {"", "https://example.com/given/"},
          repository_answer \in {"", "https://github.com/acme/renamed",
                                 "https://github.com/acme/renamed//"},
          issues_url \in {"", "https://tracker.example/x"},
          issues_answer \in {"", "https://issues.example/y"} :
        /\ args = [NoArgs EXCEPT !.package_name = package_name,
                                 !.import_name = import_name,
                                 !.repository_url = repository_url,
                                 !.issues_url = issues_url]
        /\ env = [NoEnv EXCEPT
                      !.interactive = interactive,
                      !.answers = [NoAnswers EXCEPT !.dist_name = dist_answer,
                                                    !.import_name = import_answer,
                                                    !.repository_url = repository_answer,
                                                    !.issues_url = issues_answer],
                      !.origin_name = origin_name,
                      !.origin_url = IF origin_name = "" THEN ""
                                     ELSE "https://github.com/acme/" \o origin_name]
        /\ files = WriteText(TemplateFiles, PYPROJECT, PyprojectNamed(project_name))
    /\ dirs = {TEMPLATE_IMPORT_NAME}
    /\ statePath = <<>>
    /\ backupDirExists = FALSE
    /\ backupFiles = EmptyMap
    /\ pc = "collect"
    /\ runs = 1
    /\ values = NoValues
    /\ original_files = <<>>
    /\ renamed_dirs = <<>>
    /\ backup_files = <<>>
    /\ idx = 0
    /\ target = README
    /\ ret = ""
    /\ cont = ""
    /\ data = NoData
    /\ exc = ""
    /\ prompts = <<>>
    /\ base = [dirs |-> dirs, files |-> files]
    /\ trace = <<>>
    /\ rollbackCalls = 0
    /\ atFailure = [dirs |-> dirs, files |-> files]
    /\ preRun = [dirs |-> dirs, files |-> files]
    /\ failure = ""
    /\ prev = ""
    /\ firstCall = <<>>
    /\ met = {}
    /\ call = NoCall
    /\ result = <<>>
    /\ goal = [dirs |-> dirs, files |-> files]

ValuesNext == CollectValues

ValuesSpec == InitValues /\ [][ValuesNext]_vars

\* ----------------------------------------- the helpers that patch a text
\* set_key_in_section and ensure_section are pure functions of their
\* arguments: PatchSpec calls them once on every combination of the texts,
\* sections, keys and lines below.
PatchTexts ==
    LET name_line == <<"name", "=">> \o TomlQuote(TEMPLATE_DIST_NAME)
        description_line == <<"description", "=">> \o TomlQuote("old")
        bodies ==
            { <<>>,
              <<name_line>>,
              <<name_line, description_line, <<"name", "=">> \o TomlQuote("twice")>>,
              <<description_line, <<>>>> }
    IN { preamble \o project \o urls \o groups :
            preamble \in {<<>>, << <<"#", "comment">>, <<>> >>},
            project \in {<<>>} \cup {<<SectionHeader("project")>> \o body : body \in bodies},
            urls \in {<<>>,
                      <<SectionHeader("project.urls"),
                        <<"Repository", "=">> \o TomlQuote("https://example.com/r"),
                        <<>>>>},
            groups \in {<<>>, <<SectionHeader("dependency-groups"), <<"dev", "=", "[]">>>>} }

\* The lines are those update_pyproject builds with toml_quote, one of them
\* for a value with a backslash, and a line a caller wrote by hand.
InitPatch ==
    /\ \/ \E text \in PatchTexts, section \in {"project", "project.urls"},
             key \in {"name", "description"} :
            \E line \in {<<key, "=">> \o TomlQuote(value) : value \in {"new", "C:\\dir"}}
                         \cup {<<key, "=", "\"", "\\d+", "\"">>} :
                call = [NoCall EXCEPT !.op = "set_key_in_section", !.text = text,
                                      !.section = section, !.key = key, !.line = line]
       \/ \E text \in PatchTexts, section \in {"project", "project.urls"},
             before_section \in {"dependency-groups", "tool.ruff"} :
                call = [NoCall EXCEPT !.op = "ensure_section", !.text = text,
                                      !.section = section,
                                      !.before_section = before_section]
    /\ result = <<>>
    /\ pc = "patch"
    /\ dirs = {TEMPLATE_IMPORT_NAME}
    /\ files = TemplateFiles
    /\ statePath = <<>>
    /\ backupDirExists = FALSE
    /\ backupFiles = EmptyMap
    /\ runs = 1
    /\ InitMemory
    /\ base = [dirs |-> dirs, files |-> files]
    /\ trace = <<>>
    /\ rollbackCalls = 0
    /\ atFailure = [dirs |-> dirs, files |-> files]
    /\ preRun = [dirs |-> dirs, files |-> files]
    /\ failure = ""
    /\ prev = ""
    /\ firstCall = <<>>
    /\ met = {}
    /\ goal = [dirs |-> dirs, files |-> files]

\* One call of set_key_in_section: what it raises or returns.
CallSetKey ==
    /\ pc = "patch"
    /\ call.op = "set_key_in_section"
    /\ LET raised == SetKeyRaises(call.text, call.section, call.key, call.line)
       IN result' = <<[raised |-> raised,
                       text |-> IF raised = ""
                                THEN SetKeyInSection(call.text, call.section,
                                                     call.key, call.line)
                                ELSE <<>>]>>
    /\ pc' = "patched"
    /\ UNCHANGED <<disk, runs, memory, history, terminal, met, call, goal>>

\* One call of ensure_section, which raises nothing.
CallEnsureSection ==
    /\ pc = "patch"
    /\ call.op = "ensure_section"
    /\ result' = <<[raised |-> "",
                    text |-> EnsureSection(call.text, call.section,
                                           call.before_section)]>>
    /\ pc' = "patched"
    /\ UNCHANGED <<disk, runs, memory, history, terminal, met, call, goal>>

PatchNext == CallSetKey \/ CallEnsureSection

PatchSpec == InitPatch /\ [][PatchNext]_vars

\* ==================================================================== claims
RollbackPcs == {"rb_start", "rb_rename", "rb_file", "rb_write"}
CleanupPcs == {"cl_1", "cl_2"}

\* The steps of a recovery or rollback, read from its trace.
Rank(e) ==
    CASE e[1] = "rename" -> 1
      [] e[1] = "restore" -> 2
      [] e[1] = "unlink" -> 3
      [] e[1] = "rmtree" -> 4
Ordered(tr) == \A i \in DOMAIN tr, j \in DOMAIN tr : i < j => Rank(tr[i]) <= Rank(tr[j])
IsRename(e) == e[1] = "rename"
IsRestore(e) == e[1] = "restore"
RenameSteps(tr) == SelectSeq(tr, IsRename)
RestoreSteps(tr) == SelectSeq(tr, IsRestore)
Did(tr, kind) == \E k \in DOMAIN tr : tr[k][1] = kind

\* C1: with keep_changes_on_failure unset, once rollback_changes has finished
\* after a failure raised anywhere in the mutation phase, every file has its
\* pre-run text and the package directory is back where it was.
C1_RollbackRoundTrip ==
    (pc = "raised" /\ failure # "" /\ ~args.keep_changes_on_failure)
        => RestoredTo(preRun)

\* C2: after the process was killed between two filesystem steps of the
\* mutation phase, the next invocation's recover_from_checkpoint leaves every
\* file with its pre-run text and every directory where it was.
C2_CrashRecovery ==
    (pc = "parse" /\ prev = "crash") => RestoredTo(preRun)

\* C3: after a failure in the mutation phase with keep_changes_on_failure
\* unset, rollback_changes is called exactly once before the failure leaves
\* main(), whatever the exception (KeyboardInterrupt included), the run never
\* goes on to complete, and the exception that leaves main() is the one raised.
C3_RollbackOnAnyFailure ==
    (failure # "" /\ ~args.keep_changes_on_failure) =>
        /\ pc \in {"except", "raised"} \cup RollbackPcs \cup CleanupPcs
        /\ (pc = "except" => rollbackCalls = 0)
        /\ (pc # "except" => rollbackCalls = 1)
        /\ exc = failure

C3_Witness ==
    /\ pc = "raised"
    /\ failure = "KeyboardInterrupt"
    /\ ~args.keep_changes_on_failure
    /\ rollbackCalls = 1
    /\ Did(trace, "restore")

\* C4: after a failure with keep_changes_on_failure set, rollback_changes is
\* never called and nothing is restored: the tree stays as the failure left it,
\* the manifest and the backup directory are gone when the exception leaves
\* main(), and the next invocation's recovery does not revert the changes.
C4_KeepChangesOnFailure ==
    /\ (failure # "" /\ args.keep_changes_on_failure) =>
        /\ pc \in {"except", "raised"} \cup CleanupPcs
        /\ rollbackCalls = 0
        /\ Tree = atFailure
        /\ exc = failure
        /\ (pc = "raised" => statePath = <<>> /\ ~backupDirExists)
    /\ (prev = "kept" /\ pc \in {"recover", "parse"}) =>
        /\ statePath = <<>>
        /\ Tree = base

C4_Witness ==
    /\ pc = "raised"
    /\ failure = "CalledProcessError"
    /\ args.keep_changes_on_failure
    /\ renamed_dirs # <<>>
    /\ ~RestoredTo(preRun)

\* C5: rollback_changes processes the rename records newest-first, then
\* restores the recorded files in order, then removes the manifest and then the
\* backup directory: no file is restored before every rename was processed,
\* and the manifest is not removed before the last restore.
C5_RollbackOrder ==
    (rollbackCalls = 1 /\ pc \in RollbackPcs \cup CleanupPcs \cup {"raised"}) =>
        /\ Ordered(trace)
        /\ \A k \in DOMAIN RenameSteps(trace) :
               /\ k <= Len(renamed_dirs)
               /\ RenameSteps(trace)[k][2] = renamed_dirs[Len(renamed_dirs) + 1 - k]
        /\ \A k \in DOMAIN RestoreSteps(trace) :
               /\ k <= Len(original_files)
               /\ RestoreSteps(trace)[k][2] = original_files[k][1]
        /\ Did(trace, "restore") => Len(RenameSteps(trace)) = Len(renamed_dirs)
        /\ Did(trace, "unlink") =>
               /\ Len(RenameSteps(trace)) = Len(renamed_dirs)
               /\ Len(RestoreSteps(trace)) = Len(original_files)
               /\ statePath = <<>>
        /\ Did(trace, "rmtree") => Did(trace, "unlink") /\ ~backupDirExists
        /\ pc = "raised" => Did(trace, "rmtree")

C5_Witness ==
    /\ pc = "raised"
    /\ rollbackCalls = 1
    /\ Len(renamed_dirs) = 2
    /\ Len(RenameSteps(trace)) = 2
    /\ Len(RestoreSteps(trace)) = 2
    /\ dirs = {Chain[1]}
    /\ atFailure.dirs = {Chain[3]}

\* C6: recover_from_checkpoint, given a manifest, reverts its rename records
\* newest-first (new back to old), then writes to each listed file the text of
\* its backup, then removes the manifest and the backup directory; given no
\* manifest it changes nothing on disk.
\* Recovery has loaded a manifest and is replaying it, or has replayed it.
Recovering ==
    /\ rollbackCalls = 0
    /\ \/ pc \in {"rc_rename", "rc_file", "rc_write"}
       \/ pc \in CleanupPcs /\ cont = "recovered"
       \/ pc = "parse" /\ trace # <<>>

C6_RecoverFromCheckpoint ==
    /\ Recovering =>
        /\ Ordered(trace)
        /\ \A k \in DOMAIN RenameSteps(trace) :
               /\ k <= Len(data.renames)
               /\ RenameSteps(trace)[k][2] = data.renames[Len(data.renames) + 1 - k]
        /\ Did(trace, "restore") => Len(RenameSteps(trace)) = Len(data.renames)
        /\ (pc \in CleanupPcs \cup {"parse"}) =>
               Len(RenameSteps(trace)) = Len(data.renames)
        /\ (pc = "cl_1") =>
               \A k \in DOMAIN data.files :
                   BackupExists(data.files[k][2]) =>
                       /\ Exists(data.files[k][1])
                       /\ files[data.files[k][1]] = backupFiles[data.files[k][2]]
        /\ (pc = "parse") =>
               /\ statePath = <<>>
               /\ ~backupDirExists
               /\ backupFiles = EmptyMap
               /\ Did(trace, "unlink")
        \* a chain of renames that was applied is undone: new moved back to old
        /\ (/\ pc \in {"rc_file", "rc_write", "cl_1", "cl_2", "parse"}
            /\ data.renames # <<>>
            /\ atFailure.dirs = {data.renames[Len(data.renames)][2]}) =>
               dirs = {data.renames[1][1]}
    /\ (pc = "parse" /\ rollbackCalls = 0 /\ trace = <<>>) =>
        /\ Tree = atFailure
        /\ statePath = <<>>

C6_Witness ==
    /\ pc = "parse"
    /\ Len(data.renames) = 2
    /\ Len(RenameSteps(trace)) = 2
    /\ Len(RestoreSteps(trace)) = 2
    /\ atFailure.dirs = {Chain[3]}
    /\ dirs = {Chain[1]}
    /\ files[README] = README0

\* C7: when the mutation phase of a run begins, recovery has run: no manifest
\* of an earlier run exists and the tree is the one that preceded the
\* interrupted run.
C7_RecoveryBeforeMutation ==
    (pc = "rp_start") => (statePath = <<>> /\ RestoredTo(base))

\* C8: however often backup_text_file is called for a path in one run, the
\* rollback state and the manifest hold one entry for it, with one backup file
\* of its own, and that backup holds the text the file had at the first call.
C8_BackupIdempotent ==
    (pc \in MutationPcs \cup {"except"}) =>
        /\ Cardinality(Keys(original_files)) = Len(original_files)
        /\ Cardinality(Keys(backup_files)) = Len(backup_files)
        /\ Cardinality({backup_files[k][2] : k \in DOMAIN backup_files})
               = Len(backup_files)
        /\ \A k \in DOMAIN backup_files :
               /\ BackupExists(backup_files[k][2])
               /\ backupFiles[backup_files[k][2]] = Get(firstCall, backup_files[k][1])
               /\ Get(original_files, backup_files[k][1])
                      = Get(firstCall, backup_files[k][1])
        /\ statePath # <<>> =>
               Cardinality(Keys(statePath[1].files)) = Len(statePath[1].files)

\* update_pyproject hands pyproject.toml to backup_text_file a second time,
\* after replace_placeholders has rewritten it.
C8_Witness ==
    /\ pc = "up_write"
    /\ HasKey(backup_files, PYPROJECT)
    /\ files[PYPROJECT] # Get(firstCall, PYPROJECT)
    /\ backupFiles[Get(backup_files, PYPROJECT)] = PYPROJECT0

\* C9: whenever the manifest file exists, every backup it references exists,
\* through the mutation phase, recovery, rollback and cleanup_checkpoint.
C9_ManifestBackupsExist ==
    statePath # <<>> =>
        \A k \in DOMAIN statePath[1].files : BackupExists(statePath[1].files[k][2])

\* cleanup_checkpoint has removed the manifest and not yet the backups.
C9_Witness ==
    /\ pc = "cl_2"
    /\ statePath = <<>>
    /\ backupDirExists
    /\ Cardinality(DOMAIN backupFiles) >= 2

\* C10: outside write_checkpoint, once the run has recorded a file or a
\* rename, the manifest on disk lists the (path, backup) pairs and the rename
\* records of the rollback state, in the same order.
C10_ManifestMatchesState ==
    (/\ pc \in MutationPcs \ {"wc_mkdir", "wc_write"}
     /\ (backup_files # <<>> \/ renamed_dirs # <<>>)) =>
        /\ statePath # <<>>
        /\ statePath[1].files = backup_files
        /\ statePath[1].renames = renamed_dirs

C10_Witness ==
    /\ pc = "up_read"
    /\ Len(renamed_dirs) = 1
    /\ Len(backup_files) >= 2
    /\ statePath = <<[files |-> backup_files, renames |-> renamed_dirs]>>

IsPrefix(a, b) == Len(a) <= Len(b) /\ SubSeq(b, 1, Len(a)) = a

\* C11: the rollback state and the manifest are empty when the mutation phase
\* starts; through the mutation phase they only grow, no file entry or rename
\* record being removed or changed and each path having one backup of its own;
\* and the manifest and the backups are deleted when the run completes and when
\* rollback has finished.
OnlyGrows ==
    (pc \in MutationPcs /\ pc' \in MutationPcs) =>
        /\ IsPrefix(original_files, original_files')
        /\ IsPrefix(renamed_dirs, renamed_dirs')
        /\ IsPrefix(backup_files, backup_files')
        /\ statePath # <<>> =>
               /\ statePath' # <<>>
               /\ IsPrefix(statePath[1].files, statePath'[1].files)
               /\ IsPrefix(statePath[1].renames, statePath'[1].renames)

C11_Lifecycle ==
    /\ [](pc = "rp_start" =>
            /\ original_files = <<>>
            /\ renamed_dirs = <<>>
            /\ backup_files = <<>>
            /\ statePath = <<>>)
    /\ [][OnlyGrows]_vars
    /\ [](pc \in MutationPcs =>
            /\ Cardinality(Keys(backup_files)) = Len(backup_files)
            /\ Cardinality({backup_files[k][2] : k \in DOMAIN backup_files})
                   = Len(backup_files))
    /\ [](pc \in {"post", "delete", "done"} => statePath = <<>> /\ ~backupDirExists)
    /\ []((pc = "raised" /\ rollbackCalls = 1) => statePath = <<>> /\ ~backupDirExists)

C11_Witness ==
    /\ pc = "done"
    /\ Len(backup_files) >= 4
    /\ Len(renamed_dirs) = 1
    /\ statePath = <<>>
    /\ ~backupDirExists

\* C12: when main() has returned 0, neither the manifest nor the backup
\* directory exists, and the run's changes are in place: nothing was rolled
\* back, every placeholder is substituted, the package directory carries the
\* import name, the metadata holds the values, and no step after the try block
\* has changed a file other than by deleting a bootstrap artifact.
KeepsChanges ==
    /\ (pc \in CleanupPcs /\ cont = "post") => (dirs' = dirs /\ files' = files)
    /\ pc \in {"post", "delete"} =>
           /\ dirs' = dirs
           /\ \A p \in DOMAIN files' : p \in DOMAIN files /\ files'[p] = files[p]
           /\ (DOMAIN files) \ (DOMAIN files') \subseteq
                  {SCRIPT_PATH, BOOTSTRAP_HELPER_PATH, BOOTSTRAP_TEST_PATH}

C12_CleanCompletion ==
    /\ [](pc = "done" =>
            /\ statePath = <<>>
            /\ ~backupDirExists
            /\ backupFiles = EmptyMap
            /\ rollbackCalls = 0
            /\ failure = ""
            /\ TEMPLATE_IMPORT_NAME \in dirs => values.import_name = TEMPLATE_IMPORT_NAME
            /\ \A p \in DOMAIN files :
                   (~ShouldSkipPlaceholderFile(p) /\ ~Unreadable(files[p])) =>
                       Substituted(files[p], values) = files[p]
            /\ files[PYPROJECT] = UpdatedPyproject(files[PYPROJECT], values))
    /\ [][KeepsChanges]_vars

C12_Witness ==
    /\ pc = "done"
    /\ values = ValuesPlain
    /\ dirs = {"cool_tool"}
    /\ files[README] = << <<"#", "cool-tool">>, <<"import", "cool_tool">> >>
    /\ files[PkgFile("cool_tool")][1] = <<"pkg", "cool_tool">>
    /\ Exists(UVLOCK)
    /\ ~Exists(SCRIPT_PATH)
    /\ statePath = <<>>

\* C13: recover_from_checkpoint skips a manifest entry whose backup file is
\* absent without raising, still writes to every other listed file the text of
\* its backup, and still deletes the manifest at the end.
Restored(tr, path) == \E k \in DOMAIN tr : tr[k] = <<"restore", path>>
WithBackup == {k \in DOMAIN data.files : BackupExists(data.files[k][2])}

C13_MissingBackupTolerated ==
    Recovering =>
        /\ exc = ""
        /\ \A k \in DOMAIN data.files :
               (pc \in {"cl_1", "cl_2"} \/ (pc \in {"rc_file", "rc_write"} /\ k < idx)) =>
                   IF k \in WithBackup
                   THEN /\ Restored(trace, data.files[k][1])
                        /\ Exists(data.files[k][1])
                        /\ files[data.files[k][1]] = backupFiles[data.files[k][2]]
                   ELSE /\ ~Restored(trace, data.files[k][1])
                        /\ "backup absent" \in met
        /\ pc \in {"cl_1", "cl_2"} => Len(RestoreSteps(trace)) = Cardinality(WithBackup)
        /\ pc \in {"cl_2", "parse"} => statePath = <<>>

C13_Witness ==
    /\ pc = "parse"
    /\ Len(data.files) = 2
    /\ "backup absent" \in met
    /\ RestoreSteps(trace) = << <<"restore", data.files[2][1]>> >>
    /\ files[data.files[2][1]] = OriginalText(data.files[2][1])
    /\ statePath = <<>>

\* C14 as stated: a run passes over nothing in silence but a restore whose
\* backup is absent, so a run that met any other condition (an unreadable
\* tracked file, a rename reversal that cannot be applied, a file that cannot
\* be backed up) does not complete: it ends in a fatal error.
C14_NothingElseSwallowed ==
    (pc = "done") => met \subseteq {"backup absent"}

\* C14, amended: a failure raised in the mutation phase surfaces as the fatal
\* error of the run, which never completes and lets that exception leave
\* main(); but the step that meets an unreadable tracked file, a rename
\* reversal whose guard does not hold, a path to back up that is not an
\* existing file, or a restore whose backup is absent raises nothing and the
\* run goes on.
PassesOver ==
    (met \subseteq met' /\ met' # met) =>
        /\ pc' \notin {"except", "raised"}
        /\ exc' = exc
        /\ failure' = failure

C14_RaisedFailuresSurface ==
    /\ [](failure # "" =>
            /\ pc \in {"except", "raised"} \cup RollbackPcs \cup CleanupPcs
            /\ exc = failure)
    /\ [](pc \in {"post", "delete", "done"} => failure = "" /\ exc = "")
    /\ []((pc = "raised" /\ failure # "") => exc = failure)
    /\ [](met \subseteq {"unreadable file", "rename not reverted", "file not backed up",
                         "backup absent"})
    /\ [][PassesOver]_vars

\* A run that recovered from a kill during rollback, found the rename already
\* reverted, met a file that is not UTF-8 and no uv.lock to back up, and
\* returned 0.
C14_Witness ==
    /\ pc = "done"
    /\ met = {"unreadable file", "rename not reverted", "file not backed up"}

\* C15: the names are checked before any mutation.  When the distribution or
\* the import name is empty or is rejected by validate_names, main() raises
\* before the mutation phase: the try block is entered with valid names only,
\* and a run that raised there has substituted, renamed, edited and recorded
\* nothing, no step before the try block changing the disk.
InvalidNames(v) ==
    \/ v.dist_name = ""
    \/ v.import_name = ""
    \/ ~MatchesDistName(v.dist_name)
    \/ ~MatchesImportName(v.import_name)

RaisedBeforeMutation == pc = "raised" /\ failure = "" /\ exc # ""

NoMutationBefore ==
    /\ pc \in {"parse", "collect"} => disk' = disk
    /\ (pc = "collect" /\ InvalidNames(CollectedValues(args, env, files[PYPROJECT]))) =>
           pc' \in {"raised", "killed"}

C15_NamesCheckedFirst ==
    /\ [](pc \in MutationPcs => ~InvalidNames(values))
    /\ [](RaisedBeforeMutation =>
            /\ Tree = preRun
            /\ statePath = <<>>
            /\ original_files = <<>>
            /\ renamed_dirs = <<>>
            /\ backup_files = <<>>
            /\ rollbackCalls = 0)
    /\ [][NoMutationBefore]_vars

C15_Witness ==
    /\ RaisedBeforeMutation
    /\ exc = "RuntimeError: Invalid import name"
    /\ values.dist_name = "cool-tool"
    /\ values.import_name = "bad-name"
    /\ files[README] = README0
    /\ dirs = {TEMPLATE_IMPORT_NAME}

\* collect_values (and the checks of main() after it) has run.
Collected == pc \in {"rp_start", "raised"}
CouldNotInfer == "RuntimeError: Could not infer distribution name"
\* The name of [project] in the metadata file, "" when it has none.
ProjectName == ProjectDefault(files[PYPROJECT], "name", "")

\* C16: a non-interactive invocation with no package_name argument, no repo
\* name from the git origin and a project name that is absent or still the
\* template's makes collect_values raise 'Could not infer distribution name';
\* a non-interactive collect_values never returns an empty distribution name.
C16_RequiresName ==
    (Collected /\ ~env.interactive) =>
        /\ (/\ args.package_name = ""
            /\ env.origin_name = ""
            /\ ProjectName \in {"", TEMPLATE_DIST_NAME}) =>
               /\ pc = "raised"
               /\ exc = CouldNotInfer
               /\ values = NoValues
        /\ exc # CouldNotInfer => values.dist_name # ""

C16_Witness ==
    /\ pc = "raised"
    /\ exc = CouldNotInfer
    /\ ~env.interactive
    /\ args.package_name = ""
    /\ args.import_name = "custom_pkg"
    /\ ProjectName = TEMPLATE_DIST_NAME

\* C17: the script, its helper module and its test file are deleted only by a
\* run that succeeded with keep_script unset, and only once the manifest and
\* the backups are gone; a run that fails, and a run with keep_script set,
\* deletes none of them.
ArtifactSet == {SCRIPT_PATH, BOOTSTRAP_HELPER_PATH, BOOTSTRAP_TEST_PATH}

DeletesOnlyOnSuccess ==
    (\E p \in ArtifactSet : p \in DOMAIN files /\ p \notin DOMAIN files') =>
        /\ pc = "delete"
        /\ ~args.keep_script
        /\ failure = ""
        /\ exc = ""
        /\ rollbackCalls = 0
        /\ statePath = <<>>
        /\ ~backupDirExists

C17_ArtifactsDeleted ==
    /\ [][DeletesOnlyOnSuccess]_vars
    /\ []((pc = "done" /\ args.keep_script) => \A p \in ArtifactSet : Exists(p))
    /\ []((pc = "done" /\ ~args.keep_script) => \A p \in ArtifactSet : ~Exists(p))
    /\ [](pc \in {"except", "raised"} \cup RollbackPcs => \A p \in ArtifactSet : Exists(p))

C17_Witness ==
    /\ pc = "done"
    /\ ~args.keep_script
    /\ \A p \in ArtifactSet : ~Exists(p)
    /\ renamed_dirs # <<>>
    /\ statePath = <<>>
    /\ ~backupDirExists

\* C18: when verification is not skipped, uv.lock has been handed to
\* backup_text_file before the first verification command runs: an existing
\* uv.lock is recorded, with its backup and its manifest entry, holding its
\* pre-run text, so that after a failing verification command rollback leaves
\* uv.lock with its pre-run text; with no_verify set no verification command
\* runs, uv.lock is not backed up and it is left as it was.
LockExisted == UVLOCK \in DOMAIN preRun.files
\* The statements of main() from the try block on.
InRun ==
    \/ pc \in MutationPcs \cup {"except", "raised", "post", "delete", "done"} \cup RollbackPcs
    \/ pc \in CleanupPcs /\ cont # "recovered"

C18_LockBackedUpBeforeVerify ==
    /\ (pc = "verify") =>
           /\ ~args.no_verify
           /\ LockExisted =>
                  /\ HasKey(original_files, UVLOCK)
                  /\ Get(original_files, UVLOCK) = preRun.files[UVLOCK]
                  /\ HasKey(backup_files, UVLOCK)
                  /\ BackupExists(Get(backup_files, UVLOCK))
                  /\ backupFiles[Get(backup_files, UVLOCK)] = preRun.files[UVLOCK]
                  /\ statePath # <<>>
                  /\ HasKey(statePath[1].files, UVLOCK)
           /\ (idx = 1 /\ LockExisted) => files[UVLOCK] = preRun.files[UVLOCK]
           /\ (idx = 1 /\ ~LockExisted) => ~Exists(UVLOCK)
    /\ (/\ pc = "raised"
        /\ failure = "CalledProcessError"
        /\ ~args.keep_changes_on_failure
        /\ LockExisted) =>
           /\ Exists(UVLOCK)
           /\ files[UVLOCK] = preRun.files[UVLOCK]
    /\ (InRun /\ args.no_verify) =>
           /\ pc # "verify"
           /\ ~HasKey(original_files, UVLOCK)
           /\ ~HasKey(backup_files, UVLOCK)
           /\ IF LockExisted
              THEN Exists(UVLOCK) /\ files[UVLOCK] = preRun.files[UVLOCK]
              ELSE ~Exists(UVLOCK)

C18_Witness ==
    /\ pc = "raised"
    /\ failure = "CalledProcessError"
    /\ ~args.keep_changes_on_failure
    /\ LockExisted
    /\ atFailure.files[UVLOCK] # preRun.files[UVLOCK]
    /\ files[UVLOCK] = preRun.files[UVLOCK]

\* imp is dist with every '-' and '.' replaced by '_', all else unchanged.
Derived(dist, imp) ==
    /\ Len(imp) = Len(dist)
    /\ \A k \in 1..Len(dist) :
           CharAt(imp, k) = IF CharAt(dist, k) \in {"-", "."} THEN "_" ELSE CharAt(dist, k)

\* C19: when no import name is given, neither by --import-name nor at the
\* prompt, the import name collect_values returns is the distribution name it
\* returns with every '-' and '.' replaced by '_' and every other character
\* unchanged, with and without a terminal.
C19_ImportNameDerived ==
    (/\ Collected
     /\ exc # CouldNotInfer
     /\ args.import_name = ""
     /\ env.interactive => env.answers.import_name = "") =>
        Derived(values.dist_name, values.import_name)

C19_Witness ==
    /\ pc = "rp_start"
    /\ env.interactive
    /\ args.import_name = ""
    /\ values.dist_name = "my.pkg-2"
    /\ values.import_name = "my_pkg_2"

\* C20: the distribution name collect_values returns is the package_name
\* argument when given; otherwise, with a terminal, the answer typed at the
\* prompt when not blank; otherwise the repo name of the git origin; otherwise
\* the project name of the metadata file unless it is the template's.  With a
\* terminal the prompts for the distribution and the import name show no
\* default, and blank answers to both yield the inferred distribution name
\* and the import name derived from it.
ExpectedDistName ==
    IF args.package_name # "" THEN args.package_name
    ELSE IF env.interactive /\ env.answers.dist_name # "" THEN env.answers.dist_name
    ELSE IF env.origin_name # "" THEN env.origin_name
    ELSE IF ProjectName \notin {"", TEMPLATE_DIST_NAME} THEN ProjectName
    ELSE ""
InferredWithoutPrompt ==
    IF env.origin_name # "" THEN env.origin_name
    ELSE IF ProjectName \notin {"", TEMPLATE_DIST_NAME} THEN ProjectName
    ELSE ""
StartsWith(s, prefix) == Len(s) >= Len(prefix) /\ SubSeq(s, 1, Len(prefix)) = prefix
Shown(text) == \E k \in DOMAIN prompts : prompts[k] = text

C20_DistNamePrecedence ==
    Collected =>
        /\ exc # CouldNotInfer => values.dist_name = ExpectedDistName
        /\ exc = CouldNotInfer => (ExpectedDistName = "" /\ ~env.interactive)
        /\ ~env.interactive => prompts = <<>>
        /\ env.interactive =>
               /\ Shown("Distribution name (e.g. my-package): ") <=> args.package_name = ""
               /\ Shown("Import name (e.g. my_package): ") <=> args.import_name = ""
               /\ \A k \in DOMAIN prompts :
                      /\ StartsWith(prompts[k], "Distribution name") =>
                             k = 1 /\ prompts[k] = "Distribution name (e.g. my-package): "
                      /\ StartsWith(prompts[k], "Import name") =>
                             /\ k <= 2
                             /\ prompts[k] = "Import name (e.g. my_package): "
               /\ (/\ args.package_name = ""
                   /\ args.import_name = ""
                   /\ env.answers.dist_name = ""
                   /\ env.answers.import_name = "") =>
                      /\ values.dist_name = InferredWithoutPrompt
                      /\ Derived(InferredWithoutPrompt, values.import_name)

C20_Witness ==
    /\ pc = "rp_start"
    /\ env.interactive
    /\ env.answers = NoAnswers
    /\ args = NoArgs
    /\ env.origin_name = "repo-name"
    /\ ProjectName = "proj.name"
    /\ prompts[1] = "Distribution name (e.g. my-package): "
    /\ prompts[2] = "Import name (e.g. my_package): "
    /\ values.dist_name = "repo-name"
    /\ values.import_name = "repo_name"

\* The issues URL that belongs to a repository URL: the URL without the
\* slashes at its end, then "/issues"; "" for no URL.
IssuesOf(url, issues) ==
    IF url = ""
    THEN issues = ""
    ELSE \E k \in 0..Len(url) :
            /\ k > 0 => CharAt(url, k) # "/"
            /\ \A j \in (k + 1)..Len(url) : CharAt(url, j) = "/"
            /\ issues = SubSeq(url, 1, k) \o "/issues"
NoIssuesGiven == args.issues_url = "" /\ (env.interactive => env.answers.issues_url = "")

\* C21: when no issues URL is given, neither by --issues-url nor at the
\* prompt, the issues URL collect_values returns is the repository URL it
\* returns without its trailing slashes, followed by "/issues", and is empty
\* when that URL is empty; in an interactive run the repository URL is the one
\* answered at the prompt, whatever the git origin is, and the prompt for the
\* issues URL offers the default built from it.
C21_IssuesFollowRepository ==
    (Collected /\ exc # CouldNotInfer) =>
        /\ NoIssuesGiven => IssuesOf(values.repository_url, values.issues_url)
        /\ (env.interactive /\ env.answers.repository_url # "") =>
               values.repository_url = env.answers.repository_url
        /\ (env.interactive /\ NoIssuesGiven /\ values.repository_url # "") =>
               Shown("Issues URL [" \o values.issues_url \o "]: ")

C21_Witness ==
    /\ pc = "rp_start"
    /\ env.interactive
    /\ env.origin_url = "https://github.com/acme/repo-name"
    /\ env.answers.repository_url = "https://github.com/acme/renamed//"
    /\ NoIssuesGiven
    /\ args.repository_url = ""
    /\ values.repository_url = "https://github.com/acme/renamed//"
    /\ values.issues_url = "https://github.com/acme/renamed/issues"

Called(op) == pc = "patched" /\ call.op = op
\* The text out is the text with the line put into the section from start to
\* end - 1: in place of the first line of the key, or at the end of the section
\* when it has none; every other line is the same.
LineSet(text, out, start, end, key, line) ==
    LET hits == {k \in start..(end - 1) : IsKeyLine(text[k], key)}
    IN /\ SubSeq(out, 1, start - 1) = SubSeq(text, 1, start - 1)
       /\ SubSeq(out, Len(out) - (Len(text) - end), Len(out)) = SubSeq(text, end, Len(text))
       /\ IF hits # {}
          THEN /\ Len(out) = Len(text)
               /\ \A k \in start..(end - 1) :
                      out[k] = IF k \in hits /\ (\A j \in hits : k <= j)
                               THEN line
                               ELSE text[k]
          ELSE /\ Len(out) = Len(text) + 1
               /\ SubSeq(out, start, end - 1) = SubSeq(text, start, end - 1)
               /\ out[end] = line

\* C22: set_key_in_section changes the body of the named section only: the
\* text before the section and the text from the next header on are the same;
\* in the section the first line of the key becomes the supplied line, or the
\* supplied line is appended when the key has no line; it raises when the
\* section does not exist, and only then. ensure_section returns a text that
\* has the section as it is.
C22_SetKeyInSectionOnly ==
    /\ Called("set_key_in_section") =>
           LET span == SectionSpan(call.text, call.section)
           IN IF span = <<0, 0>>
              THEN result[1].raised = "ValueError: Missing section"
              ELSE /\ result[1].raised = ""
                   /\ LineSet(call.text, result[1].text, span[1], span[2],
                              call.key, call.line)
    /\ (Called("ensure_section") /\ SectionSpan(call.text, call.section) # <<0, 0>>) =>
           (result[1].raised = "" /\ result[1].text = call.text)

\* Where a file of the tree the run started from is now: a file of the
\* package directory moves with the directory.
NowAt(p) ==
    IF p[1] = TEMPLATE_IMPORT_NAME /\ TEMPLATE_IMPORT_NAME \notin dirs
    THEN <<values.import_name, p[2]>>
    ELSE p
\* The manifest on disk has an entry for p whose backup file holds the text.
OnDiskBackup(p, text) ==
    /\ statePath # <<>>
    /\ HasKey(statePath[1].files, p)
    /\ BackupExists(Get(statePath[1].files, p))
    /\ backupFiles[Get(statePath[1].files, p)] = text

\* C23: write-ahead for files. In every state of the mutation phase, a file
\* whose text differs from the text it had when the run started (by the
\* placeholder substitution, the metadata update or a verification command)
\* has an entry in the manifest on disk, and the backup file of that entry
\* holds the text the file had when the run started.
C23_WriteAheadFiles ==
    pc \in MutationPcs =>
        \A p \in DOMAIN preRun.files :
            (Exists(NowAt(p)) /\ files[NowAt(p)] # preRun.files[p]) =>
                OnDiskBackup(p, preRun.files[p])

C23_Witness ==
    /\ pc = "up_write"
    /\ files[README] # preRun.files[README]
    /\ OnDiskBackup(README, README0)
    /\ PkgFile(TEMPLATE_IMPORT_NAME) \in DOMAIN preRun.files
    /\ Exists(PkgFile("cool_tool"))
    /\ files[PkgFile("cool_tool")] # preRun.files[PkgFile(TEMPLATE_IMPORT_NAME)]
    /\ OnDiskBackup(PkgFile(TEMPLATE_IMPORT_NAME), INIT0)
    /\ files[PYPROJECT] # preRun.files[PYPROJECT]
    /\ OnDiskBackup(PYPROJECT, PYPROJECT0)

\* The reversals and restores of a recovery or rollback are under way.
Undoing == pc \in {"rc_rename", "rc_file", "rc_write", "rb_rename", "rb_file", "rb_write"}
\* The manifest is deleted by cleanup_checkpoint only, which a recovery or a
\* rollback calls after its two loops.
DeletedAfterLoops ==
    (statePath # <<>> /\ statePath' = <<>>) =>
        /\ pc \in CleanupPcs
        /\ cont \in {"recovered", "rolledback"} =>
               /\ ~Did(trace, "unlink")
               /\ Tree = goal

\* C24: recovery and rollback can be run again. The manifest is deleted only
\* after every rename reversal and every file restore has been done; while
\* the loops of recover_from_checkpoint or rollback_changes have work left
\* the manifest is on disk, so when one of them is stopped at any point, a
\* later recover_from_checkpoint that runs to completion leaves the tree that
\* the stopped one would have left had it not been stopped.
C24_UndoRerunnable ==
    /\ [][DeletedAfterLoops]_vars
    /\ []((Undoing /\ Tree # goal) => statePath # <<>>)
    /\ []((pc = "parse" /\ prev = "undo") => Tree = goal)

\* The entries that the undo under way replays, <<>> when none is under way.
Replayed ==
    IF pc \in {"rc_rename", "rc_file", "rc_write"} \/ (pc \in CleanupPcs /\ cont = "recovered")
    THEN data.files
    ELSE IF pc \in RollbackPcs \/ (pc \in CleanupPcs /\ cont = "rolledback")
    THEN original_files
    ELSE <<>>
\* A step of a recovery, of a rollback or of their cleanup leaves a uv.lock
\* that has no entry on disk, with the text it has.
LockLeftAlone ==
    (/\ pc \in {"rc_rename", "rc_file", "rc_write"} \cup RollbackPcs \cup CleanupPcs
     /\ Exists(UVLOCK)
     /\ ~HasKey(Replayed, UVLOCK)) =>
        (UVLOCK \in DOMAIN files' /\ files'[UVLOCK] = files[UVLOCK])

\* C25: a path that does not exist when backup_text_file is called for it is
\* passed over: the call returns, and the path is recorded neither in
\* original_files, nor in backup_files, nor in the manifest. When the run
\* started without uv.lock and verification creates it, no step of rollback or
\* recovery deletes or changes it, and after a rolled-back run the file is on
\* disk with the text it had when the failure was raised.
C25_CreatedFileNotUndone ==
    /\ []((InRun /\ ~LockExisted) =>
             /\ ~HasKey(original_files, UVLOCK)
             /\ ~HasKey(backup_files, UVLOCK)
             /\ statePath # <<>> => ~HasKey(statePath[1].files, UVLOCK)
             /\ failure # "FileNotFoundError")
    /\ [][LockLeftAlone]_vars
    /\ []((/\ pc = "raised"
           /\ failure # ""
           /\ ~args.keep_changes_on_failure
           /\ ~LockExisted
           /\ UVLOCK \in DOMAIN atFailure.files) =>
              (Exists(UVLOCK) /\ files[UVLOCK] = atFailure.files[UVLOCK]))

C25_Witness ==
    /\ pc = "raised"
    /\ failure = "CalledProcessError"
    /\ ~args.keep_changes_on_failure
    /\ rollbackCalls = 1
    /\ ~LockExisted
    /\ "file not backed up" \in met
    /\ Did(trace, "restore")
    /\ Exists(UVLOCK)
    /\ files[UVLOCK] = LockFor(values.dist_name)

\* rename_package_dir has nothing to do: the template directory is absent or
\* the import name is the template's.
NothingToRename == TEMPLATE_IMPORT_NAME \notin dirs \/ values.import_name = TEMPLATE_IMPORT_NAME
Raising == {"except", "killed"}
\* The step at the head of rename_package_dir.
RenameStep ==
    pc = "rn_check" =>
        /\ NothingToRename =>
               /\ pc' \in {"up_read"} \cup Raising
               /\ UNCHANGED <<dirs, files, renamed_dirs, statePath>>
        /\ (~NothingToRename /\ values.import_name \in dirs) =>
               /\ pc' \in Raising
               /\ pc' = "except" => exc' \in {"RuntimeError", "KeyboardInterrupt"}
               /\ UNCHANGED <<dirs, files, renamed_dirs, statePath>>
        /\ dirs' # dirs =>
               /\ dirs' = (dirs \ {TEMPLATE_IMPORT_NAME}) \cup {values.import_name}
               /\ renamed_dirs = <<>>
\* A record is added for a rename that was made, and for nothing else.
RecordStep ==
    (pc \in MutationPcs /\ renamed_dirs' # renamed_dirs /\ pc' # "killed") =>
        /\ renamed_dirs = <<>>
        /\ renamed_dirs' = <<<<TEMPLATE_IMPORT_NAME, values.import_name>>>>
        /\ TEMPLATE_IMPORT_NAME \in preRun.dirs
        /\ TEMPLATE_IMPORT_NAME \notin dirs
        /\ values.import_name \in dirs
        /\ values.import_name \notin preRun.dirs
\* No other step of the mutation phase renames a directory.
NoOtherRename == (pc \in MutationPcs /\ pc # "rn_check") => dirs' = dirs

\* C26: rename_package_dir renames at most one directory in a run, the
\* template package directory to the directory of the import name. It does
\* nothing and records nothing when the template directory is absent or the
\* import name is the template's; when the target exists it raises without
\* renaming anything and without adding a record; a record is added only for
\* a rename that was made.
C26_RenameGuards ==
    /\ [][RenameStep]_vars
    /\ [][RecordStep]_vars
    /\ [][NoOtherRename]_vars
    /\ [](Len(renamed_dirs) <= 1)

\* The target directory existed: the call raised, with both directories as
\* they were and no record.
C26_Witness ==
    /\ pc = "except"
    /\ exc = "RuntimeError"
    /\ TEMPLATE_IMPORT_NAME \in dirs
    /\ values.import_name \in dirs
    /\ values.import_name # TEMPLATE_IMPORT_NAME
    /\ files[PkgFile(values.import_name)] = NOTES0
    /\ renamed_dirs = <<>>
    /\ original_files # <<>>

HasToken(text, token) ==
    \E l \in DOMAIN text : \E k \in DOMAIN text[l] : text[l][k] = token
\* A placeholder occurs in the text and the run has another name for it.
HoldsPlaceholder(text) ==
    \/ HasToken(text, TEMPLATE_DIST_NAME) /\ values.dist_name # TEMPLATE_DIST_NAME
    \/ HasToken(text, TEMPLATE_IMPORT_NAME) /\ values.import_name # TEMPLATE_IMPORT_NAME
\* The script, its helper, its tests, the lock file, the link, the missing path.
NeverTouched ==
    {SCRIPT_PATH, BOOTSTRAP_HELPER_PATH, BOOTSTRAP_TEST_PATH, UVLOCK, LINK, GONE}
\* replace_placeholders is running, or has just returned.
Replacing ==
    \/ pc \in {"rp_start", "rp_scan", "rp_write", "rn_check"}
    \/ pc \in {"bk_check", "bk_mkdir", "bk_write", "bk_record", "wc_mkdir", "wc_write"}
       /\ ret = "rp_write"
Recorded(p) ==
    \/ HasKey(original_files, p)
    \/ HasKey(backup_files, p)
    \/ statePath # <<>> /\ HasKey(statePath[1].files, p)
AsBefore(p) ==
    IF p \in DOMAIN preRun.files
    THEN Exists(p) /\ files[p] = preRun.files[p]
    ELSE ~Exists(p)
ToRewrite(p) ==
    /\ p \in DOMAIN preRun.files
    /\ p \notin NeverTouched
    /\ HoldsPlaceholder(preRun.files[p])

\* C27: replace_placeholders records and rewrites the files whose text the
\* substitution changes, and no other: while it runs and when it returns, a
\* file in which no placeholder occurs, the script, its helper, its test file,
\* uv.lock, a symbolic link and a missing path have no entry in
\* original_files, in backup_files or in the manifest and are on disk as they
\* were; a file it has recorded is recorded with the text it had, and when it
\* returns every file with a placeholder is recorded and rewritten.
C27_OnlyChangedFilesTouched ==
    Replacing =>
        \A p \in (DOMAIN preRun.files) \cup {Tracked[k] : k \in DOMAIN Tracked} :
            /\ ~ToRewrite(p) => (~Recorded(p) /\ AsBefore(p))
            /\ (ToRewrite(p) /\ HasKey(original_files, p)) =>
                   Get(original_files, p) = preRun.files[p]
            /\ (ToRewrite(p) /\ ~AsBefore(p)) => OnDiskBackup(p, preRun.files[p])
            /\ (ToRewrite(p) /\ pc = "rn_check") =>
                   /\ Exists(p)
                   /\ files[p] # preRun.files[p]
                   /\ ~HoldsPlaceholder(files[p])

C27_Witness ==
    /\ pc = "rn_check"
    /\ Len(original_files) = 3
    /\ HasKey(original_files, README)
    /\ ~Recorded(NOTES)
    /\ ~Recorded(LOGO)
    /\ HasToken(files[SCRIPT_PATH], TEMPLATE_DIST_NAME)
    /\ HasToken(files[LINK], TEMPLATE_DIST_NAME)
    /\ Exists(UVLOCK)
    /\ HasToken(files[UVLOCK], TEMPLATE_DIST_NAME)
    /\ ~Exists(GONE)

====
